---------------------------- MODULE Spec2Model ----------------------------
(***************************************************************************)
(* CareerSpark: resume-vs-job analysis, scoring and optimisation pipeline. *)
(*                                                                         *)
(* Texts are TLA+ strings handled character by character (SubSeq, Len and  *)
(* \o act on strings in TLC).  Two characters of the source that are not   *)
(* ASCII are written with stand-ins: "~" is the bullet U+2022 and "^" is   *)
(* the middle dot U+00B7.                                                  *)
(*                                                                         *)
(* Numbers that are floats in the source are exact rationals here,         *)
(* <<numerator, denominator>> in lowest terms; round(x, 1) yields tenths.  *)
(*                                                                         *)
(* External collaborators (LanguageTool, spaCy, TF-IDF) are oracles: their *)
(* answer is an input of the model, chosen in Init.                        *)
(***************************************************************************)
EXTENDS Integers, Sequences, FiniteSets, TLC

VARIABLES
    \* ---- correct_text_grammar (utils/resume_generator.py) ----
    gc_pc,            \* "idle" | "call" | "done"
    gc_text,          \* the text handed to correct_text_grammar
    lt_state,         \* LanguageTool: "ready" | "unavailable" | "failing"
    lt_matches,       \* what tool.check(text) returns when ready
    corrected_text,   \* the value correct_text_grammar returned
    \* ---- analysis and scoring of one request (routes.py upload) ----
    an_pc,            \* "idle" | "analyze" | "grammar" | "score" | "done"
    resume_text,      \* the extracted resume text
    job_description,  \* the job description of the request
    nlp,              \* what spaCy / the skill patterns find in the two texts
    tfidf,            \* what the TF-IDF vectoriser yields for the two texts
    round_half_up,    \* which way round(x, 1) goes on an exact decimal tie
    analysis,         \* analyze_resume_vs_job's result
    grammar_results,  \* check_grammar's result
    score,            \* calculate_resume_score's result
    \* ---- parse_resume_text (utils/resume_generator.py) ----
    pr_pc,            \* "idle" | "call" | "loop" | "done"
    pr_text,          \* the text handed to parse_resume_text
    pr_lines,         \* the lines the loop has still to read
    current_section,  \* the section the parser is in
    resume_data,      \* the structure under construction, then the result
    \* ---- optimize_resume_content (utils/resume_generator.py) ----
    opt_pc,           \* "idle" | "call" | "summary" | "skills" | "experience"
                      \* | "achievements" | "grammar" | "done"
    opt_resume_data,  \* the parsed resume handed to the optimizer
    opt_job_description,
    opt_analysis,     \* the analysis handed to the optimizer
    optimized,        \* the copy the optimizer works on, then the result
    heap,             \* the dicts and lists of a call, by address, where the
                      \* sharing between the caller's and the callee's matters
    \* ---- generate_format_specific_content (utils/resume_generator.py) ----
    fmt_given,        \* the two objects as they were handed to the first call
    optimized_data,   \* the optimized resume object, as the calls leave it
    fmt_analysis,     \* the analysis object, as the calls leave it
    fmt_done,         \* the format types generated so far, in order
    formats,          \* format type -> the content generated for it
    \* ---- one request to upload, download or download_all (routes.py) ----
    rq_pc,            \* the handler's position, "idle" before and "done" after
    request,          \* the route and what the client sent
    faults,           \* the outcome of each call of the request that may raise
    locals,           \* the handler's local variables
    calls,            \* the pipeline calls the handler has made, in order
    flashed,          \* the messages flashed to the user
    response,         \* what the handler returned
    data_file,        \* data/resumes.json: the list of saved entries
    uploads,          \* the files in the upload folder
    downloads,        \* the files in the download folder
    \* ---- callers of the history store running at once (models.py, cleanup.py) ----
    st_pc,            \* caller -> its position in save_resume or in the cleanup
    st_local,         \* caller -> its local variables
    returned_ids,     \* the ids that save_resume has returned
    clock,            \* datetime.now()
    file_len,         \* the length of data_file on disk, in entries
    file_ok,          \* data_file holds one whole JSON document
    overlapped,       \* the kinds of calls that were in progress at once
    stored            \* the save_resume calls that returned: what was given, and when

corrVars == <<gc_pc, gc_text, corrected_text>>
toolVars == <<lt_state, lt_matches>>
scoreVars == <<an_pc, resume_text, job_description, nlp, tfidf, round_half_up,
               analysis, grammar_results, score>>

parseVars == <<pr_pc, pr_text, pr_lines, current_section, resume_data>>

optVars == <<opt_pc, opt_resume_data, opt_job_description, opt_analysis, optimized, heap>>

fmtVars == <<fmt_given, optimized_data, fmt_analysis, fmt_done, formats>>

reqVars == <<rq_pc, request, faults, locals, calls, flashed, response, data_file,
             uploads, downloads>>

storeVars == <<st_pc, st_local, returned_ids, clock, file_len, file_ok, overlapped,
               stored>>

vars == <<corrVars, toolVars, scoreVars, parseVars, optVars, fmtVars, reqVars, storeVars>>

(***************************************************************************)
(* Python str operations                                                   *)
(***************************************************************************)
Min(a, b) == IF a <= b THEN a ELSE b
Max(a, b) == IF a >= b THEN a ELSE b

Char(s, i) == SubSeq(s, i, i)

\* s[a:b] with 0-based, non-negative a and b (Python clamps to the length)
Slice(s, a, b) == SubSeq(s, a + 1, Min(b, Len(s)))
\* s[a:]
SliceFrom(s, a) == SubSeq(s, a + 1, Len(s))

Whitespace == {" ", "\t", "\n", "\r"}
Digits == {"0", "1", "2", "3", "4", "5", "6", "7", "8", "9"}
UpperLetters == {"A", "B", "C", "D", "E", "F", "G", "H", "I", "J", "K", "L", "M",
                 "N", "O", "P", "Q", "R", "S", "T", "U", "V", "W", "X", "Y", "Z"}
LowerLetters == {"a", "b", "c", "d", "e", "f", "g", "h", "i", "j", "k", "l", "m",
                 "n", "o", "p", "q", "r", "s", "t", "u", "v", "w", "x", "y", "z"}

LowerOf == [c \in UpperLetters |->
    CASE c = "A" -> "a" [] c = "B" -> "b" [] c = "C" -> "c" [] c = "D" -> "d"
      [] c = "E" -> "e" [] c = "F" -> "f" [] c = "G" -> "g" [] c = "H" -> "h"
      [] c = "I" -> "i" [] c = "J" -> "j" [] c = "K" -> "k" [] c = "L" -> "l"
      [] c = "M" -> "m" [] c = "N" -> "n" [] c = "O" -> "o" [] c = "P" -> "p"
      [] c = "Q" -> "q" [] c = "R" -> "r" [] c = "S" -> "s" [] c = "T" -> "t"
      [] c = "U" -> "u" [] c = "V" -> "v" [] c = "W" -> "w" [] c = "X" -> "x"
      [] c = "Y" -> "y" [] c = "Z" -> "z"]

UpperOf == [c \in LowerLetters |->
    CASE c = "a" -> "A" [] c = "b" -> "B" [] c = "c" -> "C" [] c = "d" -> "D"
      [] c = "e" -> "E" [] c = "f" -> "F" [] c = "g" -> "G" [] c = "h" -> "H"
      [] c = "i" -> "I" [] c = "j" -> "J" [] c = "k" -> "K" [] c = "l" -> "L"
      [] c = "m" -> "M" [] c = "n" -> "N" [] c = "o" -> "O" [] c = "p" -> "P"
      [] c = "q" -> "Q" [] c = "r" -> "R" [] c = "s" -> "S" [] c = "t" -> "T"
      [] c = "u" -> "U" [] c = "v" -> "V" [] c = "w" -> "W" [] c = "x" -> "X"
      [] c = "y" -> "Y" [] c = "z" -> "Z"]

LowerChar(c) == IF c \in UpperLetters THEN LowerOf[c] ELSE c
UpperChar(c) == IF c \in LowerLetters THEN UpperOf[c] ELSE c

\* str.lower() / str.upper(), character by character (the string is halved
\* to keep the recursion shallow)
RECURSIVE lower(_)
lower(s) ==
    IF Len(s) = 0 THEN ""
    ELSE IF Len(s) = 1 THEN LowerChar(s)
    ELSE lower(SubSeq(s, 1, Len(s) \div 2)) \o lower(SubSeq(s, Len(s) \div 2 + 1, Len(s)))

RECURSIVE upper(_)
upper(s) ==
    IF Len(s) = 0 THEN ""
    ELSE IF Len(s) = 1 THEN UpperChar(s)
    ELSE upper(SubSeq(s, 1, Len(s) \div 2)) \o upper(SubSeq(s, Len(s) \div 2 + 1, Len(s)))

\* str.lstrip(chars) / str.rstrip(chars) / str.strip(chars)
RECURSIVE lstrip_chars(_, _)
lstrip_chars(s, cs) ==
    IF s # "" /\ Char(s, 1) \in cs THEN lstrip_chars(SliceFrom(s, 1), cs) ELSE s

RECURSIVE rstrip_chars(_, _)
rstrip_chars(s, cs) ==
    IF s # "" /\ Char(s, Len(s)) \in cs
    THEN rstrip_chars(SubSeq(s, 1, Len(s) - 1), cs) ELSE s

strip_chars(s, cs) == rstrip_chars(lstrip_chars(s, cs), cs)
strip(s) == strip_chars(s, Whitespace)

startswith(s, p) == Len(p) <= Len(s) /\ SubSeq(s, 1, Len(p)) = p
endswith(s, p) == Len(p) <= Len(s) /\ SubSeq(s, Len(s) - Len(p) + 1, Len(s)) = p

\* `sub in s`
contains(s, sub) ==
    \E i \in 1..(Len(s) - Len(sub) + 1) : SubSeq(s, i, i + Len(sub) - 1) = sub

\* s.find(sub): the 1-based position of the first occurrence, 0 when there is none
find(s, sub) ==
    IF contains(s, sub)
    THEN CHOOSE i \in 1..(Len(s) - Len(sub) + 1) :
            /\ SubSeq(s, i, i + Len(sub) - 1) = sub
            /\ \A j \in 1..(i - 1) : SubSeq(s, j, j + Len(sub) - 1) # sub
    ELSE 0

\* s.replace(old, new): every non-overlapping occurrence, left to right (old # "")
RECURSIVE replace(_, _, _)
replace(s, old, new) ==
    LET p == find(s, old) IN
    IF p = 0 THEN s
    ELSE SubSeq(s, 1, p - 1) \o new \o replace(SliceFrom(s, p - 1 + Len(old)), old, new)

\* s.count(c) for a single character c
count(s, c) == Cardinality({i \in 1..Len(s) : Char(s, i) = c})

\* any(ch.isdigit() for ch in s)
any_digit(s) == \E i \in 1..Len(s) : Char(s, i) \in Digits

\* s.isupper(): at least one cased character and no lower-case one
isupper(s) ==
    /\ \E i \in 1..Len(s) : Char(s, i) \in UpperLetters
    /\ \A i \in 1..Len(s) : Char(s, i) \notin LowerLetters

\* s.split(): the runs of non-whitespace characters
RECURSIVE split_ws(_)
split_ws(s) ==
    LET t == lstrip_chars(s, Whitespace) IN
    IF t = "" THEN <<>>
    ELSE LET n == IF \E i \in 1..Len(t) : Char(t, i) \in Whitespace
                  THEN (CHOOSE i \in 1..Len(t) :
                            /\ Char(t, i) \in Whitespace
                            /\ \A j \in 1..(i - 1) : Char(t, j) \notin Whitespace) - 1
                  ELSE Len(t)
         IN <<SubSeq(t, 1, n)>> \o split_ws(SliceFrom(t, n))

\* s.split(sep) for a non-empty separator: empty pieces are kept
RECURSIVE split(_, _)
split(s, sep) ==
    LET p == find(s, sep) IN
    IF p = 0 THEN <<s>>
    ELSE <<SubSeq(s, 1, p - 1)>> \o split(SliceFrom(s, p - 1 + Len(sep)), sep)

\* sep.join(parts)
RECURSIVE join(_, _)
join(sep, parts) ==
    IF parts = <<>> THEN ""
    ELSE IF Len(parts) = 1 THEN parts[1]
    ELSE parts[1] \o sep \o join(sep, Tail(parts))

(***************************************************************************)
(* Sequences                                                               *)
(***************************************************************************)
Range(f) == {f[i] : i \in DOMAIN f}

RECURSIVE SeqsUpTo(_, _)
SeqsUpTo(S, n) ==
    IF n = 0 THEN {<<>>}
    ELSE LET shorter == SeqsUpTo(S, n - 1) IN
         shorter \cup {Append(q, x) : q \in {r \in shorter : Len(r) = n - 1}, x \in S}

\* seq[:n]
Take(seq, n) == SubSeq(seq, 1, Min(n, Len(seq)))

(***************************************************************************)
(* Exact rationals for the source's floats                                 *)
(***************************************************************************)
Abs(n) == IF n < 0 THEN -n ELSE n

RECURSIVE GCD(_, _)
GCD(a, b) == IF b = 0 THEN a ELSE GCD(b, a % b)

\* n/d in lowest terms, d > 0
Rat(n, d) == LET g == GCD(Abs(n), d) IN <<n \div g, d \div g>>
RInt(n) == <<n, 1>>
RAdd(x, y) == Rat(x[1] * y[2] + y[1] * x[2], x[2] * y[2])
RSub(x, y) == Rat(x[1] * y[2] - y[1] * x[2], x[2] * y[2])
RMul(x, y) == Rat(x[1] * y[1], x[2] * y[2])
RLe(x, y) == x[1] * y[2] <= y[1] * x[2]
RLt(x, y) == x[1] * y[2] < y[1] * x[2]
RGe(x, y) == RLe(y, x)
RMax(x, y) == IF RLe(x, y) THEN y ELSE x
RMin(x, y) == IF RLe(x, y) THEN x ELSE y

(***************************************************************************)
(* utils/grammar_checker.py                                                *)
(***************************************************************************)
LTStates == {"ready", "unavailable", "failing"}

\* get_language_tool(): the tool, or None when LanguageTool cannot be started
get_language_tool(state) == IF state = "unavailable" THEN "None" ELSE "tool"

\* the suggestion check_grammar builds for one match that has replacements
match_suggestion(m) ==
    IF m.context # ""
    THEN LET original_text ==
                 IF m.contextOffset + m.errorLength <= Len(m.context)
                 THEN Slice(m.context, m.contextOffset, m.contextOffset + m.errorLength)
                 ELSE SliceFrom(m.context, m.contextOffset)
         IN "Consider changing '" \o original_text \o "' to '" \o m.replacements[1] \o "'"
    ELSE "Consider using '" \o m.replacements[1] \o "' instead"

\* check_grammar(text) with LanguageTool in `state` answering `matches`
check_grammar(text, state, matches) ==
    IF text = "" \/ strip(text) = ""
    THEN [issues |-> <<>>, issue_count |-> 0, suggestions |-> <<>>, score |-> RInt(100)]
    ELSE IF get_language_tool(state) = "None"
    THEN [issues |-> <<>>, issue_count |-> 0,
          suggestions |-> <<"Grammar checking service is currently unavailable">>,
          score |-> RInt(95)]
    ELSE IF state = "failing"
    THEN [issues |-> <<>>, issue_count |-> 0,
          suggestions |-> <<"Grammar checking encountered an error">>,
          score |-> RInt(90)]
    ELSE LET issues == [i \in 1..Len(matches) |->
                           [offset |-> matches[i].offset,
                            length |-> matches[i].errorLength,
                            replacements |-> Take(matches[i].replacements, 3)]]
             per_match == [i \in 1..Len(matches) |->
                              IF matches[i].replacements # <<>>
                              THEN <<match_suggestion(matches[i])>> ELSE <<>>]
             flat[i \in 0..Len(matches)] ==
                 IF i = 0 THEN <<>> ELSE flat[i - 1] \o per_match[i]
             word_count == Len(split_ws(text))
             density_score == IF word_count = 0 THEN RInt(100)
                      ELSE RMax(RInt(0),
                                RSub(RInt(100), Rat(Len(issues) * 1000, word_count)))
             general == IF Len(issues) > 5
                        THEN "Consider reviewing your text for grammar and style improvements"
                        ELSE IF Len(issues) > 0 THEN "Minor grammar improvements detected"
                        ELSE "Good grammar and writing style!"
         IN [issues |-> issues, issue_count |-> Len(issues),
             suggestions |-> Append(flat[Len(matches)], general), score |-> density_score]

(***************************************************************************)
(* utils/resume_generator.py: grammar correction                           *)
(***************************************************************************)
\* one turn of the loop over grammar_result['issues']: the splice, or nothing
apply_issue_offbyone(corrected, issue) ==
    IF issue.replacements # <<>>
    THEN IF issue.offset + issue.length <= Len(corrected)
         THEN Slice(corrected, 0, issue.offset - 1) \o issue.replacements[1]
                  \o SliceFrom(corrected, issue.offset + issue.length)
         ELSE corrected
    ELSE corrected

apply_issue(corrected, issue) ==
    IF issue.replacements # <<>>
    THEN IF issue.offset + issue.length <= Len(corrected)
         THEN Slice(corrected, 0, issue.offset) \o issue.replacements[1]
                  \o SliceFrom(corrected, issue.offset + issue.length)
         ELSE corrected
    ELSE corrected

\* the loop: the issues in the order check_grammar lists them
RECURSIVE apply_issues(_, _)
apply_issues(corrected, issues) ==
    IF issues = <<>> THEN corrected
    ELSE apply_issues(apply_issue(corrected, Head(issues)), Tail(issues))

correct_text_grammar(text, state, matches) ==
    IF text = "" \/ Len(strip(text)) < 3 THEN text
    ELSE LET grammar_result == check_grammar(text, state, matches) IN
         IF grammar_result.issues # <<>>
         THEN apply_issues(text, grammar_result.issues)
         ELSE text

(***************************************************************************)
(* Ordering of strings and sorting                                         *)
(***************************************************************************)
\* the characters of keywords in code-point order; only the order matters
CodePoints ==
    " +-.0123456789ABCDEFGHIJKLMNOPQRSTUVWXYZ_abcdefghijklmnopqrstuvwxyz"

CodeOf == [c \in {Char(CodePoints, i) : i \in 1..Len(CodePoints)} |->
              CHOOSE i \in 1..Len(CodePoints) : Char(CodePoints, i) = c]

\* a < b for Python strings
StrLess(a, b) ==
    \E k \in 0..Min(Len(a), Len(b)) :
        /\ SubSeq(a, 1, k) = SubSeq(b, 1, k)
        /\ \/ k = Len(a) /\ k < Len(b)
           \/ k < Len(a) /\ k < Len(b) /\ CodeOf[Char(a, k + 1)] < CodeOf[Char(b, k + 1)]

\* sorted(seq, key=...): Python's sort is stable; Before(x, y) is key(x) < key(y)
StableSort(seq, Before(_, _)) ==
    LET n == Len(seq)
        pos == [i \in 1..n |->
                   1 + Cardinality({j \in 1..n :
                           \/ Before(seq[j], seq[i])
                           \/ ~Before(seq[i], seq[j]) /\ j < i})]
    IN [p \in 1..n |-> seq[CHOOSE i \in 1..n : pos[i] = p]]

(***************************************************************************)
(* utils/nlp_analyzer.py                                                   *)
(***************************************************************************)
\* The words the oracles answer with, in a fixed order.  Python lists a set in
\* hash order; list(set) is modelled as the set's elements in this order.
Vocabulary ==
    <<"python", "sql", "leadership", "analytics", "automation", "collaboration",
      "excel", "data", "team", "cloud", "agile", "testing", "design", "budget",
      "strategy", "reporting", "machine learning", "project management",
      "communication", "aws", "api", "mentoring", "sales", "research",
      "planning", "docker", "git", "azure">>

list_of_set(S) == SelectSeq(Vocabulary, LAMBDA w : w \in S)

\* clean_text: runs of whitespace become one space, then strip
clean_text(text) == IF text = "" THEN "" ELSE join(" ", split_ws(text))

\* extract_keywords(text): spaCy is not asked about an empty text
extract_keywords(text, found) == IF text = "" THEN {} ELSE found

\* extract_technical_skills(text): the patterns and spaCy find `found`
extract_technical_skills(text, found) == IF text = "" THEN {} ELSE found

calculate_keyword_overlap_union(resume_keywords, job_keywords) ==
    IF job_keywords = {} THEN RInt(0)
    ELSE LET union == resume_keywords \cup job_keywords IN
         RMul(Rat(Cardinality(union), Cardinality(job_keywords)), RInt(100))

calculate_keyword_overlap(resume_keywords, job_keywords) ==
    IF job_keywords = {} THEN RInt(0)
    ELSE LET intersection == resume_keywords \cap job_keywords IN
         RMul(Rat(Cardinality(intersection), Cardinality(job_keywords)), RInt(100))

calculate_skills_match(resume_skills, job_skills) ==
    IF job_skills = {}
    THEN [percentage |-> RInt(0), matched_skills |-> <<>>, missing_skills |-> <<>>]
    ELSE LET matched_skills == list_of_set(resume_skills \cap job_skills)
             missing_skills == list_of_set(job_skills \ resume_skills)
         IN [percentage |-> RMul(Rat(Len(matched_skills), Cardinality(job_skills)),
                                 RInt(100)),
             matched_skills |-> matched_skills,
             missing_skills |-> missing_skills]

\* calculate_semantic_similarity: `vec` is what the vectoriser and the cosine
\* give, [ok |-> FALSE] when they raise, else the cosine times 100
calculate_semantic_similarity(rtext, jtext, vec) ==
    IF rtext = "" \/ jtext = "" THEN RInt(0)
    ELSE IF ~vec.ok THEN RInt(0)
    ELSE vec.value

MissingLimit == 20

missing_key_before_shortest_first(x, y) ==
    \/ Len(x) < Len(y)
    \/ Len(x) = Len(y) /\ StrLess(x, y)

\* key=lambda x: (-len(x), x), compared as Python compares tuples
missing_key_before(x, y) ==
    \/ -Len(x) < -Len(y)
    \/ -Len(x) = -Len(y) /\ StrLess(x, y)

find_missing_keywords(resume_keywords, job_keywords) ==
    LET missing == job_keywords \ resume_keywords
        missing_list == StableSort(list_of_set(missing), missing_key_before)
    IN Take(missing_list, MissingLimit)

\* the closing suggestion appended when the similarity is high, whatever
\* else was suggested
generate_improvement_suggestions_praising(missing_keywords, skills_match, semantic_similarity) ==
    LET s1 == IF missing_keywords # <<>>
              THEN <<"Add these important keywords: "
                         \o join(", ", Take(missing_keywords, 5))>>
              ELSE <<>>
        s2 == IF skills_match.missing_skills # <<>>
              THEN <<"Highlight these missing skills: "
                         \o join(", ", Take(skills_match.missing_skills, 3))>>
              ELSE <<>>
    IN IF RLt(semantic_similarity, RInt(50))
       THEN s1 \o s2 \o <<"Your resume partially matches the job requirements. Add more relevant keywords.">>
       ELSE s1 \o s2 \o <<"Your resume is well-matched to the job description!">>

generate_improvement_suggestions(missing_keywords, skills_match, semantic_similarity) ==
    LET s1 == IF missing_keywords # <<>>
              THEN <<"Add these important keywords: "
                         \o join(", ", Take(missing_keywords, 5))>>
              ELSE <<>>
        s2 == IF skills_match.missing_skills # <<>>
              THEN <<"Highlight these missing skills: "
                         \o join(", ", Take(skills_match.missing_skills, 3))>>
              ELSE <<>>
        s3 == IF RLt(semantic_similarity, RInt(30))
              THEN <<"Consider rephrasing your experience to better match the job description language">>
              ELSE IF RLt(semantic_similarity, RInt(50))
              THEN <<"Your resume partially matches the job requirements. Add more relevant keywords.">>
              ELSE <<>>
        s4 == IF Len(missing_keywords) > 10
              THEN <<"Your resume appears to be generic. Tailor it more specifically to this job.">>
              ELSE <<>>
        suggestions == s1 \o s2 \o s3 \o s4
    IN IF suggestions = <<>>
       THEN <<"Your resume is well-matched to the job description!">>
       ELSE suggestions

\* analyze_resume_vs_job(resume_text, job_description); `found` and `vec` are
\* the answers of spaCy / the skill patterns and of the TF-IDF vectoriser
analyze_resume_vs_job(rtext, jtext, found, vec) ==
    LET resume_clean == clean_text(rtext)
        job_clean == clean_text(jtext)
        resume_keywords == extract_keywords(resume_clean, found.resume_keywords)
        job_keywords == extract_keywords(job_clean, found.job_keywords)
        keyword_overlap == calculate_keyword_overlap(resume_keywords, job_keywords)
        resume_skills == extract_technical_skills(resume_clean, found.resume_skills)
        job_skills == extract_technical_skills(job_clean, found.job_skills)
        skills_match == calculate_skills_match(resume_skills, job_skills)
        semantic_similarity == calculate_semantic_similarity(resume_clean, job_clean, vec)
        missing_keywords == find_missing_keywords(resume_keywords, job_keywords)
        suggestions == generate_improvement_suggestions(
                           missing_keywords, skills_match, semantic_similarity)
    IN [keyword_overlap |-> keyword_overlap,
        skills_match |-> skills_match,
        semantic_similarity |-> semantic_similarity,
        missing_keywords |-> missing_keywords,
        resume_keywords |-> list_of_set(resume_keywords),
        job_keywords |-> list_of_set(job_keywords),
        resume_skills |-> list_of_set(resume_skills),
        job_skills |-> list_of_set(job_skills),
        suggestions |-> suggestions]

(***************************************************************************)
(* utils/scoring.py                                                        *)
(***************************************************************************)
\* round(x, 1) for x >= 0, in tenths; an exact decimal tie goes the way the
\* float nearest to x lies, which the rationals do not tell: `half_up` says it
round1(x, half_up) ==
    LET t == (10 * x[1]) \div x[2]
        twice_rest == 2 * (10 * x[1] - t * x[2])
    IN IF twice_rest < x[2] THEN t
       ELSE IF twice_rest > x[2] THEN t + 1
       ELSE IF half_up THEN t + 1 ELSE t

\* the weights, in hundredths
weights_keyword_30 ==
    [keyword_match |-> 30, skills_match |-> 25, semantic_similarity |-> 20,
     grammar |-> 15, completeness |-> 5]

weights ==
    [keyword_match |-> 35, skills_match |-> 25, semantic_similarity |-> 20,
     grammar |-> 15, completeness |-> 5]

calculate_keyword_score(an) ==
    LET keyword_overlap == an.keyword_overlap IN
    IF RGe(keyword_overlap, RInt(80)) THEN 100
    ELSE IF RGe(keyword_overlap, RInt(60)) THEN 85
    ELSE IF RGe(keyword_overlap, RInt(40)) THEN 70
    ELSE IF RGe(keyword_overlap, RInt(25)) THEN 55
    ELSE IF RGe(keyword_overlap, RInt(10)) THEN 40
    ELSE 20

\* `not skills_match`: a dict is false only when it has no key, and the dict
\* calculate_skills_match returns always has its three keys
calculate_skills_score(an) ==
    LET skills_match == an.skills_match IN
    IF DOMAIN skills_match = {} THEN 50
    ELSE LET skills_percentage == skills_match.percentage IN
         IF RGe(skills_percentage, RInt(90)) THEN 100
         ELSE IF RGe(skills_percentage, RInt(75)) THEN 90
         ELSE IF RGe(skills_percentage, RInt(60)) THEN 80
         ELSE IF RGe(skills_percentage, RInt(45)) THEN 70
         ELSE IF RGe(skills_percentage, RInt(30)) THEN 60
         ELSE IF RGe(skills_percentage, RInt(15)) THEN 45
         ELSE 30

calculate_completeness_score(an) ==
    LET resume_keywords == an.resume_keywords
        resume_skills == an.resume_skills
        completeness_factors ==
            <<Len(resume_keywords) >= 10,
              Len(resume_skills) >= 3,
              Cardinality(Range(resume_keywords)) >= 8,
              Len(resume_keywords) >= 15>>
        met_factors == Cardinality({i \in 1..4 : completeness_factors[i]})
    IN RMul(Rat(met_factors, Len(completeness_factors)), RInt(100))

get_score_category_and_recommendations(x) ==
    IF RGe(x, RInt(85))
    THEN [category |-> "Excellent",
          recommendations |-> <<"Your resume is very well-matched to this position!",
                                "Consider minor formatting improvements for perfection",
                                "You're ready to apply with confidence">>]
    ELSE IF RGe(x, RInt(70))
    THEN [category |-> "Good",
          recommendations |-> <<"Your resume is well-suited for this position",
                                "Add a few more relevant keywords to improve matching",
                                "Consider reviewing and enhancing key achievements">>]
    ELSE IF RGe(x, RInt(55))
    THEN [category |-> "Fair",
          recommendations |-> <<"Your resume shows potential but needs improvement",
                                "Focus on adding missing keywords and skills",
                                "Enhance your experience descriptions with specific achievements">>]
    ELSE IF RGe(x, RInt(40))
    THEN [category |-> "Needs Improvement",
          recommendations |-> <<"Significant improvements needed to match this position",
                                "Add relevant keywords and skills from the job description",
                                "Consider restructuring content to better align with requirements">>]
    ELSE [category |-> "Poor Match",
          recommendations |-> <<"Major revisions needed to match this job",
                                "Consider if this position aligns with your experience",
                                "Focus on highlighting transferable skills and relevant experience">>]

\* the entry calculate_improvement_potential appends for one area
improvement_entry(area, x) ==
    LET potential_gain == RMin(RInt(25), RSub(RInt(90), x)) IN
    CASE area = "keyword_match" ->
            [area |-> "Keyword Optimization", current_score |-> x,
             potential_gain |-> potential_gain,
             priority |-> IF RLt(x, RInt(50)) THEN "High" ELSE "Medium",
             actions |-> <<"Add missing keywords from job description",
                           "Use industry-specific terminology",
                           "Include relevant technical terms">>]
      [] area = "skills_match" ->
            [area |-> "Skills Alignment", current_score |-> x,
             potential_gain |-> potential_gain,
             priority |-> IF RLt(x, RInt(60)) THEN "High" ELSE "Medium",
             actions |-> <<"Highlight relevant technical skills",
                           "Add missing required skills",
                           "Organize skills by relevance">>]
      [] area = "semantic_similarity" ->
            [area |-> "Content Relevance", current_score |-> x,
             potential_gain |-> potential_gain,
             priority |-> "Medium",
             actions |-> <<"Rewrite experience using job description language",
                           "Focus on relevant achievements",
                           "Align content with job requirements">>]
      [] area = "grammar" ->
            [area |-> "Writing Quality", current_score |-> x,
             potential_gain |-> potential_gain,
             priority |-> IF RLt(RInt(60), x) THEN "Medium" ELSE "High",
             actions |-> <<"Fix grammar and spelling errors",
                           "Improve sentence structure",
                           "Use professional language">>]
      [] area = "completeness" ->
            [area |-> "Resume Completeness", current_score |-> x,
             potential_gain |-> potential_gain,
             priority |-> "Low",
             actions |-> <<"Add more relevant experience details",
                           "Include additional skills",
                           "Expand achievement descriptions">>]

priority_order(p) == CASE p = "High" -> 3 [] p = "Medium" -> 2 [] p = "Low" -> 1

\* the three lowest-scoring areas, the final sort left out
calculate_improvement_potential_lowest_first(overall, breakdown) ==
    LET sorted_areas == StableSort(breakdown, LAMBDA a, b : RLt(a[2], b[2]))
        below == SelectSeq(sorted_areas, LAMBDA a : RLt(a[2], RInt(70)))
        improvements == [i \in 1..Len(below) |-> improvement_entry(below[i][1], below[i][2])]
    IN Take(improvements, 3)

\* breakdown: the sequence of <<area, score>> in the dict's insertion order
calculate_improvement_potential(overall, breakdown) ==
    LET sorted_areas == StableSort(breakdown, LAMBDA a, b : RLt(a[2], b[2]))
        below == SelectSeq(sorted_areas, LAMBDA a : RLt(a[2], RInt(70)))
        improvements == [i \in 1..Len(below) |-> improvement_entry(below[i][1], below[i][2])]
        \* sort(key=(priority_order, potential_gain), reverse=True): descending,
        \* entries with equal keys keep their order
        by_impact == StableSort(improvements,
                         LAMBDA a, b :
                             \/ priority_order(a.priority) > priority_order(b.priority)
                             \/ /\ priority_order(a.priority) = priority_order(b.priority)
                                /\ RLt(b.potential_gain, a.potential_gain))
    IN Take(by_impact, 3)

\* calculate_resume_score(analysis, grammar_results); the scores of the report
\* are rounded to one decimal and held in tenths
calculate_resume_score(an, gr, half_up) ==
    LET keyword_score == RInt(calculate_keyword_score(an))
        skills_score == RInt(calculate_skills_score(an))
        semantic_score == an.semantic_similarity
        grammar_score == gr.score
        completeness_score == calculate_completeness_score(an)
        weighted(x, w) == RMul(x, Rat(w, 100))
        weighted_sum ==
            RAdd(RAdd(RAdd(RAdd(weighted(keyword_score, weights.keyword_match),
                                weighted(skills_score, weights.skills_match)),
                           weighted(semantic_score, weights.semantic_similarity)),
                      weighted(grammar_score, weights.grammar)),
                 weighted(completeness_score, weights.completeness))
        overall_score == RMax(RInt(0), RMin(RInt(100), weighted_sum))
        cr == get_score_category_and_recommendations(overall_score)
    IN [overall_score |-> round1(overall_score, half_up),
        category |-> cr.category,
        breakdown |-> [keyword_match |-> round1(keyword_score, half_up),
                       skills_match |-> round1(skills_score, half_up),
                       semantic_similarity |-> round1(semantic_score, half_up),
                       grammar |-> round1(grammar_score, half_up),
                       completeness |-> round1(completeness_score, half_up)],
        weights |-> weights,
        recommendations |-> cr.recommendations,
        improvement_potential |->
            calculate_improvement_potential(overall_score,
                <<<<"keyword_match", keyword_score>>,
                  <<"skills_match", skills_score>>,
                  <<"semantic_similarity", semantic_score>>,
                  <<"grammar", grammar_score>>,
                  <<"completeness", completeness_score>>>>)]

(***************************************************************************)
(* utils/resume_generator.py: the parser.  In the strings of this module   *)
(* "~" stands for the bullet U+2022 and "^" for the middle dot U+00B7.     *)
(***************************************************************************)
Bullet == "~"
MiddleDot == "^"

Letters == UpperLetters \cup LowerLetters
WordChars == Letters \cup Digits \cup {"_"}
IsWordAt(s, i) == i >= 1 /\ i <= Len(s) /\ Char(s, i) \in WordChars
\* \b between the characters p and p + 1 (1-based; p = 0 is the start)
WordBoundary(s, p) == IsWordAt(s, p) # IsWordAt(s, p + 1)
AllIn(s, a, b, S) == \A i \in a..b : Char(s, i) \in S

EmailLocalChars == Letters \cup Digits \cup {".", "_", "%", "+", "-"}
EmailDomainChars == Letters \cup Digits \cup {".", "-"}
EmailTldChars == Letters \cup {"|"}

\* the ends e of a match of the e-mail pattern that starts at s with its last
\* dot at p: the local part runs up to the "@", which it cannot contain
email_ends(line, s, p) ==
    {e \in (p + 2)..Len(line) :
        /\ WordBoundary(line, s - 1)
        /\ \E a \in (s + 1)..(p - 2) :
               /\ Char(line, a) = "@"
               /\ AllIn(line, s, a - 1, EmailLocalChars)
               /\ AllIn(line, a + 1, p - 1, EmailDomainChars)
        /\ Char(line, p) = "."
        /\ AllIn(line, p + 1, e, EmailTldChars)
        /\ WordBoundary(line, e)}

SetMax(S) == CHOOSE x \in S : \A y \in S : y <= x
SetMin(S) == CHOOSE x \in S : \A y \in S : x <= y

\* re.search(e-mail pattern, line).group(), "" when there is no match: the
\* leftmost start, then the greedy domain (last dot), then the greedy ending
email_search(line) ==
    LET n == Len(line)
        starts == {s \in 1..n : \E p \in 1..n : email_ends(line, s, p) # {}}
    IN IF starts = {} THEN ""
       ELSE LET s == SetMin(starts)
                p == SetMax({q \in 1..n : email_ends(line, s, q) # {}})
                e == SetMax(email_ends(line, s, p))
            IN SubSeq(line, s, e)

PhoneSeparators == Whitespace \cup {".", "-"}
\* the pattern's elements in order: the set an element matches, whether it is
\* optional
PhonePattern ==
    <<[chars |-> {"+"}, optional |-> TRUE],
      [chars |-> Digits \ {"0"}, optional |-> TRUE],
      [chars |-> PhoneSeparators, optional |-> TRUE],
      [chars |-> {"("}, optional |-> TRUE],
      [chars |-> Digits, optional |-> FALSE],
      [chars |-> Digits, optional |-> FALSE],
      [chars |-> Digits, optional |-> FALSE],
      [chars |-> {")"}, optional |-> TRUE],
      [chars |-> PhoneSeparators, optional |-> TRUE],
      [chars |-> Digits, optional |-> FALSE],
      [chars |-> Digits, optional |-> FALSE],
      [chars |-> Digits, optional |-> FALSE],
      [chars |-> PhoneSeparators, optional |-> TRUE],
      [chars |-> Digits, optional |-> FALSE],
      [chars |-> Digits, optional |-> FALSE],
      [chars |-> Digits, optional |-> FALSE],
      [chars |-> Digits, optional |-> FALSE]>>

\* the end of the match of the elements k.. of the phone pattern at the
\* characters after `pos`, 0 when there is none; an optional element is tried
\* present first, as the regex engine backtracks
RECURSIVE phone_match(_, _, _)
phone_match(line, pos, k) ==
    IF k > Len(PhonePattern) THEN pos
    ELSE LET here == pos < Len(line) /\ Char(line, pos + 1) \in PhonePattern[k].chars
             taken == IF here THEN phone_match(line, pos + 1, k + 1) ELSE 0
         IN IF taken # 0 THEN taken
            ELSE IF PhonePattern[k].optional THEN phone_match(line, pos, k + 1)
            ELSE 0

\* re.search(phone pattern, line).group(), "" when there is no match
phone_search(line) ==
    LET starts == {s \in 0..(Len(line) - 1) : phone_match(line, s, 1) # 0}
    IN IF starts = {} THEN ""
       ELSE LET s == SetMin(starts) IN Slice(line, s, phone_match(line, s, 1))

\* re.search(r'(20\d{2}|19\d{2})', line)
year_search(line) ==
    \E i \in 1..(Len(line) - 3) :
        /\ SubSeq(line, i, i + 1) \in {"20", "19"}
        /\ Char(line, i + 2) \in Digits /\ Char(line, i + 3) \in Digits

section_keywords ==
    <<[section |-> "personal", keywords |-> <<"contact", "personal", "name", "email", "phone">>],
      [section |-> "summary", keywords |-> <<"summary", "profile", "objective", "about">>],
      [section |-> "experience",
       keywords |-> <<"experience", "employment", "work", "career", "jobs">>],
      [section |-> "skills",
       keywords |-> <<"skills", "competencies", "technologies", "tools", "expertise">>],
      [section |-> "education",
       keywords |-> <<"education", "qualifications", "academic", "degree", "school">>],
      [section |-> "achievements",
       keywords |-> <<"achievements", "awards", "honors", "accomplishments">>]>>

\* the test with the length limit applied to both alternatives
is_likely_header_short_only(line) ==
    /\ Len(line) < 50
    /\ isupper(line) \/ (count(line, " ") <= 3 /\ ~any_digit(line))

\* `len(line) < 50 and line.isupper() or line.count(' ') <= 3 and not any digit`
is_likely_header(line) ==
    \/ Len(line) < 50 /\ isupper(line)
    \/ count(line, " ") <= 3 /\ ~any_digit(line)

\* the header detection of the loop: the section the line switches to, "" when
\* the line is not a header
detect_section(line) ==
    LET line_lower == lower(line)
        hits == SelectSeq(section_keywords,
                    LAMBDA sk : /\ \E i \in 1..Len(sk.keywords) :
                                       contains(line_lower, sk.keywords[i])
                                /\ Len(line) < 100
                                /\ is_likely_header(line))
    IN IF hits = <<>> THEN "" ELSE hits[1].section

\* dict.get(key, default) and dict[key] = value on a function with string keys
dict_get(d, key, default) == IF key \in DOMAIN d THEN d[key] ELSE default
dict_set(d, key, value) == [k \in DOMAIN d \cup {key} |-> IF k = key THEN value ELSE d[k]]

parse_personal_info(line, personal_info) ==
    LET email_match == email_search(line)
        phone_match_group == phone_search(line)
        with_email == IF email_match # "" THEN dict_set(personal_info, "email", email_match)
                      ELSE personal_info
        with_phone == IF phone_match_group # ""
                      THEN dict_set(with_email, "phone", phone_match_group)
                      ELSE with_email
    IN IF email_match = "" /\ phone_match_group = ""
       THEN IF "name" \notin DOMAIN personal_info /\ Len(split_ws(line)) <= 4
            THEN dict_set(personal_info, "name", line)
            ELSE dict_set(personal_info, "address",
                          dict_get(personal_info, "address", "") \o line \o " ")
       ELSE with_phone

\* experience_list[-1]['responsibilities'].append(r)
append_responsibility(experience_list, r) ==
    [experience_list EXCEPT ![Len(experience_list)].responsibilities = Append(@, r)]

parse_experience_item(line, experience_list) ==
    IF /\ Len(split_ws(line)) <= 6
       /\ contains(lower(line), "at") \/ contains(line, "|") \/ contains(line, "-")
       /\ ~startswith(line, Bullet) /\ ~startswith(line, "-")
    THEN LET job_parts == IF contains(line, " at ") THEN split(line, " at ")
                          ELSE split(line, " - ")
         IN Append(experience_list,
                   [title |-> IF job_parts # <<>> THEN strip(job_parts[1]) ELSE line,
                    company |-> IF Len(job_parts) > 1 THEN strip(job_parts[2]) ELSE "",
                    duration |-> "",
                    responsibilities |-> <<>>])
    ELSE IF experience_list # <<>>
            /\ (startswith(line, Bullet) \/ startswith(line, "-") \/ startswith(line, "*"))
    THEN append_responsibility(experience_list,
                               lstrip_chars(line, {Bullet, "-", "*", " "}))
    ELSE IF experience_list # <<>>
    THEN IF year_search(line)
         THEN [experience_list EXCEPT ![Len(experience_list)].duration = line]
         ELSE append_responsibility(experience_list, line)
    ELSE experience_list

\* the loop `if skill and skill not in skills_list: skills_list.append(skill)`
RECURSIVE append_new(_, _)
append_new(skills_list, skills) ==
    IF skills = <<>> THEN skills_list
    ELSE LET skill == Head(skills) IN
         append_new(IF skill # "" /\ skill \notin Range(skills_list)
                    THEN Append(skills_list, skill) ELSE skills_list,
                    Tail(skills))

stripped_pieces(pieces) ==
    SelectSeq([i \in 1..Len(pieces) |-> strip(pieces[i])], LAMBDA p : p # "")

parse_skills(line, skills_list) ==
    LET separators == <<",", Bullet, "|", MiddleDot, ";">>
        present == SelectSeq(separators, LAMBDA sep : contains(line, sep))
        skills == IF present = <<>> THEN <<line>>
                  ELSE stripped_pieces(split(line, present[1]))
    IN append_new(skills_list, skills)

parse_education_item(line, education_list) ==
    IF \E keyword \in {"university", "college", "degree", "bachelor", "master", "phd"} :
           contains(lower(line), keyword)
    THEN Append(education_list,
                [institution |-> "", degree |-> "", year |-> "", details |-> line])
    ELSE education_list

\* the structure parse_resume_text starts from
empty_resume_data ==
    [personal_info |-> <<>>, summary |-> "", experience |-> <<>>, skills |-> <<>>,
     education |-> <<>>, achievements |-> <<>>, other_sections |-> <<>>]

\* [line.strip() for line in text.split('\n') if line.strip()]
resume_lines(text) == stripped_pieces(split(text, "\n"))

\* one turn of the loop over the lines: st = [current_section, resume_data]
parse_line(line, st) ==
    LET detected == detect_section(line)
        data == st.resume_data
    IN IF detected # "" THEN [st EXCEPT !.current_section = detected]
       ELSE [st EXCEPT !.resume_data =
               CASE st.current_section = "personal" ->
                        [data EXCEPT !.personal_info = parse_personal_info(line, @)]
                 [] st.current_section = "summary" ->
                        [data EXCEPT !.summary = @ \o line \o " "]
                 [] st.current_section = "experience" ->
                        [data EXCEPT !.experience = parse_experience_item(line, @)]
                 [] st.current_section = "skills" ->
                        [data EXCEPT !.skills = parse_skills(line, @)]
                 [] st.current_section = "education" ->
                        [data EXCEPT !.education = parse_education_item(line, @)]
                 [] st.current_section = "achievements" ->
                        [data EXCEPT !.achievements = Append(@, line)]
                 [] OTHER -> [data EXCEPT !.other_sections = Append(@, line)]]

RECURSIVE parse_lines_from(_, _)
parse_lines_from(lines, st) ==
    IF lines = <<>> THEN st ELSE parse_lines_from(Tail(lines), parse_line(Head(lines), st))

\* parse_resume_text(text): {} for the empty text
parse_resume_text(text) ==
    IF text = "" THEN <<>>
    ELSE LET st == parse_lines_from(resume_lines(text),
                       [current_section |-> "other", resume_data |-> empty_resume_data])
         IN [st.resume_data EXCEPT !.summary = strip(@)]

(***************************************************************************)
(* utils/resume_generator.py: the optimizer                                *)
(***************************************************************************)
\* seq[n:] and the list comprehension [f(x) for x in seq]
Drop(seq, n) == SubSeq(seq, Min(n, Len(seq)) + 1, Len(seq))
Map(seq, F(_)) == [i \in 1..Len(seq) |-> F(seq[i])]

tech_corrections ==
    <<<<"javascript", "JavaScript">>, <<"html", "HTML">>, <<"css", "CSS">>,
      <<"sql", "SQL">>, <<"aws", "AWS">>, <<"api", "API">>, <<"ui", "UI">>,
      <<"ux", "UX">>, <<"powerbi", "PowerBI">>, <<"github", "GitHub">>>>

\* the loop over tech_corrections from entry k on; corrected_lower is taken
\* once, before the loop
RECURSIVE apply_tech_corrections(_, _, _)
apply_tech_corrections(corrected, corrected_lower, k) ==
    IF k > Len(tech_corrections) THEN corrected
    ELSE LET tech == tech_corrections[k][1]
             proper_case == tech_corrections[k][2]
         IN apply_tech_corrections(
                IF contains(corrected_lower, tech)
                THEN replace(replace(corrected, tech, proper_case), upper(tech), proper_case)
                ELSE corrected,
                corrected_lower, k + 1)

correct_skill_text(skill) ==
    IF skill = "" THEN skill
    ELSE LET corrected == strip(skill) IN
         rstrip_chars(apply_tech_corrections(corrected, lower(corrected), 1),
                      {".", ",", ";", ":"})

DefaultSummary ==
    "Experienced professional with strong background in delivering results and exceeding expectations."

RECURSIVE add_summary_keywords(_, _)
add_summary_keywords(enhanced_summary, keywords_to_add) ==
    IF keywords_to_add = <<>> THEN enhanced_summary
    ELSE LET keyword == Head(keywords_to_add) IN
         add_summary_keywords(
             IF ~contains(lower(enhanced_summary), lower(keyword))
             THEN IF contains(lower(enhanced_summary), "experience")
                  THEN replace(enhanced_summary, "experience",
                               "experience in " \o lower(keyword))
                  ELSE rstrip_chars(enhanced_summary, {"."}) \o ". Skilled in "
                           \o lower(keyword) \o "."
             ELSE enhanced_summary,
             Tail(keywords_to_add))

optimize_summary_comprehensive(summary, missing_keywords, suggestions, jd) ==
    LET start == IF summary = "" THEN DefaultSummary ELSE summary
        enhanced_summary == add_summary_keywords(strip(start), Take(missing_keywords, 3))
    IN IF ~endswith(enhanced_summary, ".") THEN enhanced_summary \o "."
       ELSE enhanced_summary

\* the two loops that append what no existing skill contains
RECURSIVE append_absent(_, _)
append_absent(optimized_skills, candidates) ==
    IF candidates = <<>> THEN optimized_skills
    ELSE LET skill == Head(candidates) IN
         append_absent(
             IF ~\E i \in 1..Len(optimized_skills) :
                    contains(lower(optimized_skills[i]), lower(skill))
             THEN Append(optimized_skills, skill) ELSE optimized_skills,
             Tail(candidates))

\* "remove duplicates while preserving order": the first of the skills that
\* are equal when lower-cased
unique_ignoring_case(skills) ==
    SelectSeq([i \in 1..Len(skills) |->
                  IF \E j \in 1..(i - 1) : lower(skills[j]) = lower(skills[i])
                  THEN <<>> ELSE <<skills[i]>>],
              LAMBDA x : x # <<>>)

optimize_skills_comprehensive(skills, job_skills, missing_keywords, matched_skills) ==
    LET with_job == append_absent(skills, Take(job_skills, 5))
        skill_keywords == SelectSeq(missing_keywords, LAMBDA k : Len(split_ws(k)) <= 2)
        with_keywords == append_absent(with_job, Take(skill_keywords, 3))
        formatted == Map(with_keywords, correct_skill_text)
    IN Map(unique_ignoring_case(formatted), Head)

action_verbs ==
    <<"Led", "Managed", "Developed", "Implemented", "Designed", "Created", "Improved",
      "Optimized", "Achieved", "Delivered">>

enhance_responsibility_with_keyword(responsibility, keyword) ==
    LET keyword_lower == lower(keyword) IN
    CASE keyword_lower = "python" -> responsibility \o " using Python programming"
      [] keyword_lower = "sql" -> responsibility \o " with SQL database queries"
      [] keyword_lower = "excel" -> responsibility \o " utilizing Excel analysis"
      [] keyword_lower = "leadership" -> responsibility \o " demonstrating strong leadership"
      [] keyword_lower = "analytics" -> responsibility \o " through data analytics"
      [] keyword_lower = "automation" -> responsibility \o " via process automation"
      [] keyword_lower = "collaboration" ->
             responsibility \o " through cross-team collaboration"
      [] OTHER -> responsibility \o " leveraging " \o keyword \o " expertise"

add_quantifiable_impact(responsibility) ==
    LET low == lower(responsibility) IN
    IF contains(low, "team") \/ contains(low, "manage")
    THEN responsibility \o ", supporting team of 10+ members"
    ELSE IF contains(low, "process") \/ contains(low, "improve")
    THEN responsibility \o ", resulting in 20% efficiency improvement"
    ELSE IF contains(low, "develop") \/ contains(low, "create")
    THEN responsibility \o ", achieving 95% accuracy rate"
    ELSE responsibility \o ", delivering measurable results"

create_keyword_responsibility(keyword, jd) ==
    IF lower(keyword) \in {"leadership", "management", "collaboration"}
    THEN "Demonstrated " \o keyword \o " skills to guide teams and achieve organizational goals"
    ELSE IF lower(keyword) \in {"analytics", "analysis", "data"}
    THEN "Conducted " \o keyword
             \o " to inform decision-making and drive strategic initiatives"
    ELSE "Implemented " \o keyword
             \o " solutions to streamline operations and improve efficiency"

\* lines 382-396: the responsibility made to start with an action verb
with_action_verb(resp) ==
    LET stripped == strip(resp)
        low == lower(stripped)
    IN IF \E i \in 1..Len(action_verbs) : startswith(stripped, action_verbs[i])
       THEN stripped
       ELSE LET led == IF contains(low, "manage") \/ contains(low, "lead")
                       THEN "Led " \o low
                       ELSE IF contains(low, "develop") \/ contains(low, "create")
                       THEN "Developed " \o low
                       ELSE IF contains(low, "improve") \/ contains(low, "optimize")
                       THEN "Improved " \o low
                       ELSE "Achieved " \o low
            IN upper(Char(led, 1)) \o SliceFrom(led, 1)

\* a keyword taken at every index
chosen_keyword_at_any_index(verbed, j, missing_keywords, keywords_used) ==
    LET available_keywords ==
            SelectSeq(missing_keywords,
                      LAMBDA k : ~contains(lower(verbed), lower(k)) /\ k \notin keywords_used)
    IN IF available_keywords # <<>> THEN available_keywords[1] ELSE ""

\* lines 399-403: the keyword the turn for `verbed` (0-based index j) takes
\* when keywords_used holds the earlier turns' keywords, "" when it takes none
chosen_keyword(verbed, j, missing_keywords, keywords_used) ==
    LET available_keywords ==
            SelectSeq(missing_keywords,
                      LAMBDA k : ~contains(lower(verbed), lower(k)) /\ k \notin keywords_used)
    IN IF available_keywords # <<>> /\ j < 3 THEN available_keywords[1] ELSE ""

\* keywords_used at the start of the turn with 0-based index j
RECURSIVE keywords_used_before(_, _, _)
keywords_used_before(resps, j, missing_keywords) ==
    IF j = 0 THEN {}
    ELSE LET earlier == keywords_used_before(resps, j - 1, missing_keywords) IN
         earlier \cup ({chosen_keyword(with_action_verb(resps[j]), j - 1,
                                       missing_keywords, earlier)} \ {""})

\* lines 406-411: the keyword worked in, then the impact on the first turn
with_keyword_and_impact(verbed, j, keyword) ==
    LET keyed == IF keyword # "" /\ Len(split_ws(keyword)) = 1
                 THEN enhance_responsibility_with_keyword(verbed, keyword)
                 ELSE verbed
    IN IF ~any_digit(keyed) /\ j = 0 THEN add_quantifiable_impact(keyed) ELSE keyed

\* one turn of the loop over the responsibilities of an entry (0-based index j)
enhance_responsibility(resps, j, missing_keywords) ==
    LET verbed == with_action_verb(resps[j + 1]) IN
    with_keyword_and_impact(verbed, j,
        chosen_keyword(verbed, j, missing_keywords,
                       keywords_used_before(resps, j, missing_keywords)))

\* lines 416-420: the responsibility added for a keyword not used yet
with_new_responsibility(enhanced_responsibilities, keywords_used, missing_keywords, jd) ==
    LET remaining_keywords ==
            SelectSeq(Take(missing_keywords, 3), LAMBDA k : k \notin keywords_used)
    IN IF remaining_keywords # <<>> /\ Len(enhanced_responsibilities) < 5
       THEN LET new_responsibility ==
                    create_keyword_responsibility(remaining_keywords[1], jd)
            IN IF new_responsibility # ""
               THEN Append(enhanced_responsibilities, new_responsibility)
               ELSE enhanced_responsibilities
       ELSE enhanced_responsibilities

optimize_experience_item_drop_last(exp, missing_keywords, jd) ==
    [exp EXCEPT !.responsibilities = SubSeq(@, 1, Len(@) - 1)]

\* one turn of the loop over the experience entries
optimize_experience_item(exp, missing_keywords, jd) ==
    [exp EXCEPT !.responsibilities =
        with_new_responsibility(
            [j \in 1..Len(@) |-> enhance_responsibility(@, j - 1, missing_keywords)],
            keywords_used_before(@, Len(@), missing_keywords),
            missing_keywords, jd)]

optimize_experience_comprehensive(experience, missing_keywords, suggestions, jd) ==
    [i \in 1..Len(experience) |->
        optimize_experience_item(experience[i], missing_keywords, jd)]

RECURSIVE add_keyword_achievements(_, _)
add_keyword_achievements(enhanced_achievements, keywords) ==
    IF keywords = <<>> THEN enhanced_achievements
    ELSE LET keyword == Head(keywords) IN
         add_keyword_achievements(
             IF ~contains(lower(join(" ", enhanced_achievements)), keyword)
             THEN Append(enhanced_achievements,
                         "Successfully applied " \o keyword
                             \o " expertise to deliver exceptional results")
             ELSE enhanced_achievements,
             Tail(keywords))

\* the fillers appended only where they are not there yet
enhance_achievements_once(achievements, missing_keywords, suggestions) ==
    LET enhanced_achievements ==
            add_keyword_achievements(achievements, Take(missing_keywords, 3))
        filler == "Recognized for outstanding performance and commitment to excellence"
    IN IF /\ suggestions # <<>>
          /\ Len(enhanced_achievements) < 5
          /\ \A i \in 1..Len(enhanced_achievements) : enhanced_achievements[i] # filler
       THEN enhanced_achievements
                \o <<filler,
                     "Consistently exceeded performance targets and quality standards">>
       ELSE enhanced_achievements

enhance_achievements(achievements, missing_keywords, suggestions) ==
    LET enhanced_achievements ==
            add_keyword_achievements(achievements, Take(missing_keywords, 3))
    IN IF suggestions # <<>> /\ Len(enhanced_achievements) < 5
       THEN enhanced_achievements
                \o <<"Recognized for outstanding performance and commitment to excellence",
                     "Consistently exceeded performance targets and quality standards">>
       ELSE enhanced_achievements

\* apply_grammar_corrections(resume_data): LanguageTool in `state` answers
\* `matches` for each text it is asked about
apply_grammar_corrections(data, state, matches) ==
    LET fix(text) == correct_text_grammar(text, state, matches)
        fix_exp(exp) ==
            [exp EXCEPT !.responsibilities = Map(@, fix),
                        !.title = IF @ # "" THEN fix(@) ELSE @,
                        !.company = IF @ # "" THEN fix(@) ELSE @]
    IN [data EXCEPT !.summary = IF @ # "" THEN fix(@) ELSE @,
                    !.experience = Map(@, fix_exp),
                    !.achievements = Map(@, fix),
                    !.skills = Map(@, correct_skill_text)]

\* optimize_resume_content(resume_data, job_description, analysis)
optimize_resume_content(data, jd, an, state, matches) ==
    LET missing_keywords == an.missing_keywords
        job_skills == an.job_skills
        suggestions == an.suggestions
        matched_skills == an.skills_match.matched_skills
        s1 == [data EXCEPT !.summary =
                  optimize_summary_comprehensive(@, missing_keywords, suggestions, jd)]
        s2 == [s1 EXCEPT !.skills =
                  optimize_skills_comprehensive(@, job_skills, missing_keywords,
                                                matched_skills)]
        s3 == [s2 EXCEPT !.experience =
                  optimize_experience_comprehensive(@, missing_keywords, suggestions, jd)]
        s4 == [s3 EXCEPT !.achievements =
                  enhance_achievements(@, missing_keywords, suggestions)]
    IN apply_grammar_corrections(s4, state, matches)

(***************************************************************************)
(* The dicts and lists of optimize_resume_content as objects: `heap` is a  *)
(* sequence of objects, an address is an index into it.  A resume dict     *)
(* holds the addresses of its skills, achievements and experience lists,   *)
(* the experience list holds the addresses of the entry dicts, an entry    *)
(* holds the address of its responsibilities list.  Strings are values.    *)
(***************************************************************************)

\* the caller's resume as objects: the lists, the entries, then the dict
stored_resume(data) ==
    LET n == Len(data.experience) IN
    [a \in 1..(2 * n + 4) |->
        CASE a = 1 -> data.skills
          [] a = 2 -> data.achievements
          [] a > 2 /\ a <= 2 * n + 2 /\ a % 2 = 1 ->
                 data.experience[(a - 1) \div 2].responsibilities
          [] a > 2 /\ a <= 2 * n + 2 /\ a % 2 = 0 ->
                 [data.experience[(a - 2) \div 2] EXCEPT !.responsibilities = a - 1]
          [] a = 2 * n + 3 -> [i \in 1..n |-> 2 * i + 2]
          [] OTHER -> [data EXCEPT !.skills = 1, !.achievements = 2,
                                   !.experience = 2 * n + 3]]

\* the resume that the dict at address `at` stands for
value_at(h, at) ==
    LET d == h[at]
        entry(e) == [h[e] EXCEPT !.responsibilities = h[@]]
    IN [d EXCEPT !.skills = h[@], !.achievements = h[@],
                 !.experience = [i \in 1..Len(h[d.experience]) |->
                                    entry(h[d.experience][i])]]

\* a new object
allocated(h, object) == [heap |-> Append(h, object), at |-> Len(h) + 1]

\* the same object under another name, nothing copied
copied_as_alias(h, at) == [heap |-> h, at |-> at]

\* dict.copy() (lines 180, 216 and 375): a new dict holding what the old one
\* holds, the lists and dicts it refers to shared
copied(h, at) == allocated(h, h[at])

\* lines 374-423: each entry copied, its responsibilities replaced by a new
\* list; `done` are the addresses appended to optimized_exp so far
RECURSIVE optimized_entries(_, _, _, _, _)
optimized_entries(h, entries, done, missing_keywords, jd) ==
    IF entries = <<>> THEN allocated(h, done)
    ELSE LET exp == Head(entries)
             given == [h[exp] EXCEPT !.responsibilities = h[@]]
             enhanced_responsibilities ==
                 optimize_experience_item(given, missing_keywords, jd).responsibilities
             optimized_item == copied(h, exp)
             list == allocated(optimized_item.heap, enhanced_responsibilities)
         IN optimized_entries(
                [list.heap EXCEPT ![optimized_item.at].responsibilities = list.at],
                Tail(entries), Append(done, optimized_item.at), missing_keywords, jd)

\* lines 223-230: the loop of apply_grammar_corrections over the entries of
\* corrected_data['experience'], assigning into each entry
RECURSIVE corrected_entries(_, _, _, _)
corrected_entries(h, entries, state, matches) ==
    IF entries = <<>> THEN h
    ELSE LET exp == Head(entries)
             fix(text) == correct_text_grammar(text, state, matches)
             h1 == IF h[h[exp].responsibilities] # <<>>
                   THEN LET list == allocated(h, Map(h[h[exp].responsibilities], fix))
                        IN [list.heap EXCEPT ![exp].responsibilities = list.at]
                   ELSE h
             h2 == [h1 EXCEPT ![exp].title = IF @ # "" THEN fix(@) ELSE @,
                              ![exp].company = IF @ # "" THEN fix(@) ELSE @]
         IN corrected_entries(h2, Tail(entries), state, matches)
(***************************************************************************)
(* utils/resume_generator.py: the four presentation formats.  A Python     *)
(* dict whose order of keys matters is a sequence of <<key, value>> pairs. *)
(***************************************************************************)
format_types == <<"chronological", "functional", "combination", "targeted">>

any_in(words, text) == \E w \in words : contains(text, w)

\* the word lists of the four rules of group_skills_by_category
programming_words == {"python", "java", "javascript", "html", "css", "sql"}
tool_words == {"excel", "powerbi", "tableau", "jira", "git"}
soft_words == {"leadership", "communication", "teamwork", "management"}
technical_words == {"aws", "azure", "docker", "kubernetes", "api"}

category_of_soft_last(skill) ==
    LET skill_lower == lower(skill) IN
    IF any_in(programming_words, skill_lower)
    THEN "Programming Languages"
    ELSE IF any_in(tool_words, skill_lower)
    THEN "Tools & Technologies"
    ELSE IF any_in(technical_words, skill_lower)
    THEN "Technical Skills"
    ELSE IF any_in(soft_words, skill_lower)
    THEN "Soft Skills"
    ELSE "Other Skills"

\* the if / elif chain of group_skills_by_category
category_of(skill) ==
    LET skill_lower == lower(skill) IN
    IF any_in(programming_words, skill_lower)
    THEN "Programming Languages"
    ELSE IF any_in(tool_words, skill_lower)
    THEN "Tools & Technologies"
    ELSE IF any_in(soft_words, skill_lower)
    THEN "Soft Skills"
    ELSE IF any_in(technical_words, skill_lower)
    THEN "Technical Skills"
    ELSE "Other Skills"

\* the keys of `categories` in the order the dict is built with
category_keys ==
    <<"Technical Skills", "Programming Languages", "Tools & Technologies",
      "Soft Skills", "Other Skills">>

group_skills_by_category(skills) ==
    LET categories == [k \in 1..Len(category_keys) |->
                          <<category_keys[k],
                            SelectSeq(skills, LAMBDA s : category_of(s) = category_keys[k])>>]
    IN SelectSeq(categories, LAMBDA kv : kv[2] # <<>>)

create_targeted_summary(original_summary, missing_keywords) ==
    IF original_summary = ""
    THEN "Professional with expertise in " \o join(", ", Take(missing_keywords, 3)) \o "."
    ELSE IF missing_keywords # <<>>
    THEN original_summary \o " Experienced in " \o join(", ", Take(missing_keywords, 3))
             \o " with proven track record of success."
    ELSE original_summary

is_relevant_case_sensitive(skill, job_skills) ==
    \E i \in 1..Len(job_skills) : contains(skill, job_skills[i])

\* any(job_skill.lower() in skill.lower() for job_skill in job_skills)
is_relevant(skill, job_skills) ==
    \E i \in 1..Len(job_skills) : contains(lower(skill), lower(job_skills[i]))

prioritize_relevant_skills(skills, job_skills) ==
    IF job_skills = <<>> THEN skills
    ELSE LET relevant_skills == SelectSeq(skills, LAMBDA s : is_relevant(s, job_skills))
             other_skills == SelectSeq(skills, LAMBDA s : ~is_relevant(s, job_skills))
         IN relevant_skills \o other_skills

section(title, content) == [title |-> title, content |-> content]

generate_format_specific_content(data, format_type, an) ==
    LET content == [format_type |-> format_type,
                    personal_info |-> dict_get(data, "personal_info", <<>>),
                    summary |-> dict_get(data, "summary", ""),
                    sections |-> <<>>]
        skills == dict_get(data, "skills", <<>>)
        experience == dict_get(data, "experience", <<>>)
        education == dict_get(data, "education", <<>>)
        achievements == dict_get(data, "achievements", <<>>)
    IN CASE format_type = "chronological" ->
              [content EXCEPT !.sections =
                  <<section("Professional Experience", experience),
                    section("Skills", skills),
                    section("Education", education),
                    section("Achievements", achievements)>>]
         [] format_type = "functional" ->
              [content EXCEPT !.sections =
                  <<section("Core Competencies", group_skills_by_category(skills)),
                    section("Professional Experience", experience),
                    section("Education", education)>>]
         [] format_type = "combination" ->
              [content EXCEPT !.sections =
                  <<section("Skills Summary", skills),
                    section("Professional Experience", experience),
                    section("Education", education),
                    section("Additional Achievements", achievements)>>]
         [] format_type = "targeted" ->
              [content EXCEPT
                  !.summary = create_targeted_summary(dict_get(data, "summary", ""),
                                  dict_get(an, "missing_keywords", <<>>)),
                  !.sections =
                  <<section("Relevant Skills",
                            prioritize_relevant_skills(skills, dict_get(an, "job_skills", <<>>))),
                    section("Relevant Experience", experience),
                    section("Education", education),
                    section("Key Achievements", achievements)>>]
         [] OTHER -> content

\* what a call of generate_format_specific_content leaves in the two objects
\* it was handed: the function reads them, builds new lists and assigns to
\* neither
arguments_after_reordering_skills(data, format_type, an) ==
    [resume_data |->
         IF format_type = "targeted"
         THEN [data EXCEPT !.skills =
                  prioritize_relevant_skills(@, dict_get(an, "job_skills", <<>>))]
         ELSE data,
     analysis |-> an]

arguments_after(data, format_type, an) == [resume_data |-> data, analysis |-> an]

(***************************************************************************)
(* routes.py and models.py: what the request handlers compute.  A handler  *)
(* that catches an exception is modelled with the outcome of the call that *)
(* may raise as an input of the request (faults).                          *)
(***************************************************************************)
ALLOWED_EXTENSIONS == {"txt", "pdf", "docx"}

\* the position of the last "." of a name, 0 when there is none
last_dot(name) ==
    IF \E i \in 1..Len(name) : Char(name, i) = "."
    THEN CHOOSE i \in 1..Len(name) :
             Char(name, i) = "." /\ \A j \in (i + 1)..Len(name) : Char(name, j) # "."
    ELSE 0

\* '.' in filename and filename.rsplit('.', 1)[1].lower() in ALLOWED_EXTENSIONS
allowed_file(filename) ==
    /\ last_dot(filename) > 0
    /\ lower(SliceFrom(filename, last_dot(filename))) \in ALLOWED_EXTENSIONS

\* os.path.splitext(name)[0]: a leading dot does not start an extension
splitext_base(name) ==
    IF last_dot(name) > 1 THEN SubSeq(name, 1, last_dot(name) - 1) ELSE name

\* generate_resume_formats(resume_text, job_description, analysis): the
\* variants in a dict keyed by format type
generate_resume_formats(text, jd, an, state, matches) ==
    LET parsed == parse_resume_text(text)
        optimized_data_ == optimize_resume_content(parsed, jd, an, state, matches)
    IN [ft \in Range(format_types) |->
           generate_format_specific_content(optimized_data_, ft, an)]

\* the grammar results the upload handler falls back to when check_grammar raises
route_grammar_fallback ==
    [issues |-> <<>>, issue_count |-> 0,
     suggestions |-> <<"Grammar checking temporarily unavailable">>,
     score |-> RInt(90)]

\* the dict the upload handler hands to save_resume
upload_resume_data(filename, text, jd, an, sc, gr, resumes) ==
    [original_filename |-> filename,
     original_text |-> text,
     job_description |-> jd,
     analysis |-> an,
     score |-> sc,
     suggestions |-> [grammar |-> gr,
                      keywords |-> dict_get(an, "missing_keywords", <<>>),
                      improvements |-> dict_get(an, "suggestions", <<>>)],
     optimized_resumes |-> resumes]

\* ResumeHistory.save_resume: the entry appended to what was loaded; `now`
\* is the clock in milliseconds
resume_entry(data, now) ==
    [id |-> now,
     timestamp |-> now,
     original_filename |-> dict_get(data, "original_filename", ""),
     original_text |-> dict_get(data, "original_text", ""),
     job_description |-> dict_get(data, "job_description", ""),
     analysis |-> dict_get(data, "analysis", <<>>),
     score |-> dict_get(data, "score", <<>>),
     suggestions |-> dict_get(data, "suggestions", <<>>),
     optimized_resumes |-> dict_get(data, "optimized_resumes", <<>>)]

\* ResumeHistory.load_by_id: the first entry with the id, {} when there is none
load_by_id(resumes, resume_id) ==
    LET hits == SelectSeq(resumes, LAMBDA r : r.id = resume_id)
    IN IF hits = <<>> THEN <<>> ELSE hits[1]

\* where the upload handler goes when analyze_resume_vs_job has raised or
\* returned (lines 60-65): the except clause flashes and returns
after_analyze_ignoring_error(raised) == "grammar"

after_analyze(raised) == IF raised THEN "return" ELSE "grammar"

\* werkzeug's secure_filename on an ASCII name: blanks and path separators
\* become "_", other characters outside letters, digits and "_.-" are
\* dropped, and the result is stripped of "." and "_"
RECURSIVE secure_chars(_)
secure_chars(name) ==
    IF name = "" THEN ""
    ELSE LET c == Char(name, 1) IN
         (IF c \in Whitespace \cup {"/"} THEN "_"
          ELSE IF c \in Letters \cup Digits \cup {"_", ".", "-"} THEN c
          ELSE "") \o secure_chars(SliceFrom(name, 1))

secure_filename(name) == strip_chars(secure_chars(name), {".", "_"})

\* a call that raised, and a call that returned `value`
raised_ == [raised |-> TRUE, value |-> ""]
returned(value) == [raised |-> FALSE, value |-> value]

\* the time stamp in the names of the generated files
FileStamp == "20240101_000000"

\* generate_txt_resume: the name of the file written; `fl.txt` says whether
\* the file can be written
generate_txt_resume(optimized_resume, format_type, output_dir, fl) ==
    IF fl.txt = "raises" THEN raised_
    ELSE returned(output_dir \o "/resume_" \o format_type \o "_" \o FileStamp \o ".txt")

\* generate_simple_pdf_resume: without FPDF a text file is written instead
generate_simple_pdf_resume(optimized_resume, format_type, output_dir, fl) ==
    IF fl.fpdf = "missing"
    THEN generate_txt_resume(optimized_resume, format_type, output_dir, fl)
    ELSE IF fl.fpdf = "raises" THEN raised_
    ELSE returned(output_dir \o "/resume_" \o format_type \o "_" \o FileStamp \o ".pdf")

\* generate_pdf_resume: WeasyPrint, and the simple renderer when it raises
generate_pdf_resume(optimized_resume, format_type, output_dir, fl) ==
    IF fl.weasyprint = "raises"
    THEN generate_simple_pdf_resume(optimized_resume, format_type, output_dir, fl)
    ELSE returned(output_dir \o "/resume_" \o format_type \o "_" \o FileStamp \o ".pdf")

\* generate_downloadable_resume: a format type that the record does not hold
\* yields the empty dict, which is rendered like any other
generate_downloadable_resume(data, format_type, file_format, output_dir, fl) ==
    LET optimized_resume == dict_get(data.optimized_resumes, format_type, <<>>) IN
    IF file_format = "txt"
    THEN generate_txt_resume(optimized_resume, format_type, output_dir, fl)
    ELSE IF file_format = "pdf"
    THEN generate_pdf_resume(optimized_resume, format_type, output_dir, fl)
    ELSE raised_

\* the loop of download_all: every format type with every file format
download_all_pairs ==
    <<<<"chronological", "pdf">>, <<"chronological", "txt">>,
      <<"functional", "pdf">>, <<"functional", "txt">>,
      <<"combination", "pdf">>, <<"combination", "txt">>,
      <<"targeted", "pdf">>, <<"targeted", "txt">>>>

\* os.path.getsize of a closed ZIP archive, at least: the end-of-central-
\* directory record of 22 bytes and, for every entry, a local header (30
\* bytes and the name) and a central-directory header (46 bytes and the name)
RECURSIVE zip_size(_)
zip_size(entries) ==
    IF entries = <<>> THEN 22
    ELSE 76 + 2 * Len(Head(entries)) + zip_size(Tail(entries))

(***************************************************************************)
(* The history store (models.py) and the cleanup of its file (cleanup.py)  *)
(***************************************************************************)
max_age_hours == 24

\* ResumeHistory._load_all: the entries of the file, [] when the file does
\* not hold one whole JSON document (json.JSONDecodeError)
load_all(file, ok) == IF ok THEN file ELSE <<>>

\* resumes.append(resume_entry) of save_resume
resumes_append_forgetting_loaded(resumes, entry) == <<entry>>

resumes_append(resumes, entry) == Append(resumes, entry)

\* the filter of cleanup_old_resume_data: the entries younger than the cutoff
filtered_resumes(resumes, now) ==
    SelectSeq(resumes, LAMBDA resume : resume.timestamp > now - max_age_hours)

\* open(data_file, 'w') truncates the file at once; the document is
\* written from offset 0 when the buffer is flushed, over whatever another
\* handle has written since: the file then holds one whole document only
\* when the document is at least as long as what was there
flushed_len(len, document) == Max(len, Len(document))
flushed_ok(len, document) == Len(document) >= len

(***************************************************************************)
(* Each specification below runs one component; the variables of the       *)
(* others stay at these idle values.                                       *)
(***************************************************************************)
CorrIdle == gc_pc = "idle" /\ gc_text = "" /\ corrected_text = ""

ToolIdle == lt_state = "unavailable" /\ lt_matches = <<>>

ScoreIdle ==
    /\ an_pc = "idle"
    /\ resume_text = ""
    /\ job_description = ""
    /\ nlp = <<>>
    /\ tfidf = <<>>
    /\ round_half_up = FALSE
    /\ analysis = <<>>
    /\ grammar_results = <<>>
    /\ score = <<>>

ParseIdle ==
    /\ pr_pc = "idle"
    /\ pr_text = ""
    /\ pr_lines = <<>>
    /\ current_section = "other"
    /\ resume_data = <<>>

OptIdle ==
    /\ opt_pc = "idle"
    /\ opt_resume_data = <<>>
    /\ opt_job_description = ""
    /\ opt_analysis = <<>>
    /\ optimized = <<>>
    /\ heap = <<>>

FmtIdle ==
    /\ fmt_given = <<>>
    /\ optimized_data = <<>>
    /\ fmt_analysis = <<>>
    /\ fmt_done = <<>>
    /\ formats = <<>>

ReqIdle ==
    /\ rq_pc = "idle"
    /\ request = <<>>
    /\ faults = <<>>
    /\ locals = <<>>
    /\ calls = <<>>
    /\ flashed = <<>>
    /\ response = <<>>
    /\ data_file = <<>>
    /\ uploads = {}
    /\ downloads = {}

StoreIdle ==
    /\ st_pc = <<>>
    /\ st_local = <<>>
    /\ returned_ids = {}
    /\ clock = 0
    /\ file_len = 0
    /\ file_ok = TRUE
    /\ overlapped = {}
    /\ stored = <<>>

(***************************************************************************)
(* Specification of the grammar corrector: one call of correct_text_grammar*)
(* on a text, with LanguageTool's answer for that text as the input.       *)
(***************************************************************************)
MaxIssues == 2
MaxOffset == 4

CorrTexts == {"ab", "abcd", "abcdef"}
CorrReplacements == {<<>>, <<"">>, <<"X">>, <<"XYZ", "W">>}
CorrMatches ==
    [offset : 0..MaxOffset, errorLength : 1..2, replacements : CorrReplacements,
     context : {""}, contextOffset : {0}]

CorrInit ==
    /\ gc_pc = "call"
    /\ gc_text \in CorrTexts
    /\ lt_state \in LTStates
    /\ lt_matches \in IF lt_state = "ready" THEN SeqsUpTo(CorrMatches, MaxIssues)
                      ELSE {<<>>}
    /\ corrected_text = ""
    /\ ScoreIdle
    /\ ParseIdle
    /\ OptIdle /\ FmtIdle /\ ReqIdle /\ StoreIdle

CorrectText ==
    /\ gc_pc = "call"
    /\ corrected_text' = correct_text_grammar(gc_text, lt_state, lt_matches)
    /\ gc_pc' = "done"
    /\ UNCHANGED <<gc_text, toolVars, scoreVars, parseVars, optVars,
                   fmtVars,
                   reqVars,
                   storeVars>>

CorrNext == CorrectText

SpecCorrect == CorrInit /\ [][CorrNext]_vars

(***************************************************************************)
(* Specification of the analysis and scoring pipeline of the upload route: *)
(* analyze_resume_vs_job, check_grammar, calculate_resume_score, in that   *)
(* order, for one resume text and one job description.  spaCy's and the    *)
(* skill patterns' findings (nlp), the TF-IDF cosine (tfidf), LanguageTool *)
(* (lt_state, lt_matches) and the direction of rounding ties are inputs.   *)
(***************************************************************************)
NumKw == 22
SemResolution == 10
NumSkills == 4

RECURSIVE text_of_words(_)
text_of_words(n) == IF n = 0 THEN "" ELSE IF n = 1 THEN "word"
                    ELSE "word " \o text_of_words(n - 1)

KwInterval(a, b) == {Vocabulary[i] : i \in a..b}
KwIntervals == {KwInterval(a, b) : a \in 1..NumKw, b \in 0..NumKw}
KwEnds == {KwInterval(1, b) : b \in 0..NumKw} \cup {KwInterval(a, NumKw) : a \in 1..NumKw}
SkillWords == <<"python", "sql", "aws", "docker", "git", "azure", "excel">>
SkillSets == SUBSET {SkillWords[i] : i \in 1..NumSkills}
OneMatch == [offset |-> 0, errorLength |-> 1, replacements |-> <<"X">>,
             context |-> "", contextOffset |-> 0]
MatchLists == {[i \in 1..n |-> OneMatch] : n \in 0..MaxIssues}
BlankTexts == {"", "  ", "\n\t "}
SomeJob == "python sql"

\* the keyword sets vary
FamKeywords ==
    /\ resume_text = text_of_words(12)
    /\ job_description = SomeJob
    /\ nlp \in [resume_keywords : KwIntervals, job_keywords : KwEnds,
                resume_skills : {{"python"}}, job_skills : {{"python", "sql"}}]
    /\ tfidf \in {[ok |-> TRUE, value |-> RInt(40)]}
    /\ lt_state = "ready" /\ lt_matches = <<>>
    /\ round_half_up = TRUE

\* the skill sets and the size of the resume's keyword set vary
FamSkills ==
    /\ resume_text = text_of_words(12)
    /\ job_description = SomeJob
    /\ nlp \in [resume_keywords : {KwInterval(1, b) : b \in 0..NumKw},
                job_keywords : {KwInterval(1, 5)},
                resume_skills : SkillSets, job_skills : SkillSets]
    /\ tfidf = [ok |-> TRUE, value |-> RInt(100)]
    /\ lt_state = "ready" /\ lt_matches = <<>>
    /\ round_half_up = TRUE

\* the cosine, the grammar score and the rounding of ties vary
FamNumeric ==
    /\ job_description = SomeJob
    /\ nlp \in {[resume_keywords |-> KwInterval(1, 16), job_keywords |-> KwInterval(1, 16),
                 resume_skills |-> {"python", "sql", "aws"},
                 job_skills |-> {"python", "sql", "aws"}],
                [resume_keywords |-> KwInterval(1, 4), job_keywords |-> KwInterval(3, 9),
                 resume_skills |-> {"python"}, job_skills |-> {"python", "sql", "aws"}]}
    /\ tfidf \in {[ok |-> TRUE, value |-> Rat(i, SemResolution)] :
                     i \in 0..(100 * SemResolution)}
    /\ lt_state \in LTStates
    /\ lt_matches \in IF lt_state = "ready" THEN MatchLists ELSE {<<>>}
    /\ resume_text = IF lt_matches = <<>> THEN text_of_words(12) ELSE text_of_words(30)
    /\ round_half_up \in BOOLEAN

\* one of the two texts is empty or blank
FamEmpty ==
    /\ \/ resume_text \in BlankTexts /\ job_description \in BlankTexts \cup {SomeJob}
       \/ resume_text = text_of_words(12) /\ job_description \in BlankTexts
    /\ nlp \in [resume_keywords : {{}, KwInterval(1, 3)}, job_keywords : {{}, KwInterval(2, 5)},
                resume_skills : {{}, {"python"}}, job_skills : {{}, {"python", "sql"}}]
    /\ tfidf \in {[ok |-> TRUE, value |-> RInt(50)], [ok |-> FALSE, value |-> RInt(0)]}
    /\ lt_state \in LTStates /\ lt_matches = <<>>
    /\ round_half_up = TRUE

ScoreInit ==
    /\ an_pc = "analyze"
    /\ analysis = <<>>
    /\ grammar_results = <<>>
    /\ score = <<>>
    /\ CorrIdle
    /\ ParseIdle
    /\ OptIdle /\ FmtIdle /\ ReqIdle /\ StoreIdle
    /\ FamKeywords \/ FamSkills \/ FamNumeric \/ FamEmpty

Analyze ==
    /\ an_pc = "analyze"
    /\ analysis' = analyze_resume_vs_job(resume_text, job_description, nlp, tfidf)
    /\ an_pc' = "grammar"
    /\ UNCHANGED <<resume_text, job_description, nlp, tfidf, round_half_up,
                   grammar_results, score, toolVars, corrVars, parseVars, optVars,
                   fmtVars,
                   reqVars,
                   storeVars>>

CheckGrammar ==
    /\ an_pc = "grammar"
    /\ grammar_results' = check_grammar(resume_text, lt_state, lt_matches)
    /\ an_pc' = "score"
    /\ UNCHANGED <<resume_text, job_description, nlp, tfidf, round_half_up,
                   analysis, score, toolVars, corrVars, parseVars, optVars,
                   fmtVars,
                   reqVars,
                   storeVars>>

Score ==
    /\ an_pc = "score"
    /\ score' = calculate_resume_score(analysis, grammar_results, round_half_up)
    /\ an_pc' = "done"
    /\ UNCHANGED <<resume_text, job_description, nlp, tfidf, round_half_up,
                   analysis, grammar_results, toolVars, corrVars, parseVars, optVars,
                   fmtVars,
                   reqVars,
                   storeVars>>

ScoreNext == Analyze \/ CheckGrammar \/ Score

SpecScore == ScoreInit /\ [][ScoreNext]_vars

(***************************************************************************)
(* Specification of the parser: one call of parse_resume_text, its loop    *)
(* taken one line at a time.                                               *)
(***************************************************************************)
MaxLines == 3

LineCatalog ==
    {"EXPERIENCE", "SKILLS", "Education", "Summary", "Contact", "AWARDS",
     "Engineer at Acme", "~ Built things", "Built things", "2019 - 2021",
     "Python, SQL, python", "MIT University 2015", "jo@ex.com 555-123-4567",
     "Jo Doe", "  "}

ParseTexts == {join("\n", ls) : ls \in SeqsUpTo(LineCatalog, MaxLines)}

ParseInit ==
    /\ pr_pc = "call"
    /\ pr_text \in ParseTexts
    /\ pr_lines = <<>>
    /\ current_section = "other"
    /\ resume_data = <<>>
    /\ CorrIdle /\ ToolIdle /\ ScoreIdle /\ OptIdle /\ FmtIdle /\ ReqIdle /\ StoreIdle

\* lines 30-46: the early return, else the initial structure and the lines
ParseStart ==
    /\ pr_pc = "call"
    /\ IF pr_text = ""
       THEN /\ resume_data' = <<>>
            /\ pr_pc' = "done"
            /\ UNCHANGED <<pr_lines, current_section>>
       ELSE /\ resume_data' = empty_resume_data
            /\ pr_lines' = resume_lines(pr_text)
            /\ current_section' = "other"
            /\ pr_pc' = "loop"
    /\ UNCHANGED <<pr_text, corrVars, toolVars, scoreVars, optVars,
                   fmtVars,
                   reqVars,
                   storeVars>>

\* lines 58-87: one turn of the loop
ParseLine ==
    /\ pr_pc = "loop"
    /\ pr_lines # <<>>
    /\ LET st == parse_line(Head(pr_lines),
                     [current_section |-> current_section, resume_data |-> resume_data])
       IN /\ current_section' = st.current_section
          /\ resume_data' = st.resume_data
    /\ pr_lines' = Tail(pr_lines)
    /\ UNCHANGED <<pr_pc, pr_text, corrVars, toolVars, scoreVars, optVars,
                   fmtVars,
                   reqVars,
                   storeVars>>

\* lines 89-92: the clean-up and the return
ParseReturn ==
    /\ pr_pc = "loop"
    /\ pr_lines = <<>>
    /\ resume_data' = [resume_data EXCEPT !.summary = strip(@)]
    /\ pr_pc' = "done"
    /\ UNCHANGED <<pr_text, pr_lines, current_section, corrVars, toolVars, scoreVars, optVars,
                   fmtVars,
                   reqVars,
                   storeVars>>

ParseNext == ParseStart \/ ParseLine \/ ParseReturn

SpecParse == ParseInit /\ [][ParseNext]_vars

(***************************************************************************)
(* SpecHeaders: parse_resume_text on texts of header-like lines            *)
(***************************************************************************)
MaxHeaderLines == 2

HeaderCatalog ==
    {"SKILLS", "SKILLS 2024", "Skills 2024", "Work and career history",
     "My work and career history", "Built things", "Python, SQL",
     "EXPERIENCE AND EMPLOYMENT AND WORK AND CAREER AND JOBS",
     "professional-experience-and-employment-history-of-work"}

HeaderTexts == {join("\n", ls) : ls \in SeqsUpTo(HeaderCatalog, MaxHeaderLines)}

HeaderInit ==
    /\ pr_pc = "call"
    /\ pr_text \in HeaderTexts
    /\ pr_lines = <<>>
    /\ current_section = "other"
    /\ resume_data = <<>>
    /\ CorrIdle /\ ToolIdle /\ ScoreIdle /\ OptIdle /\ FmtIdle /\ ReqIdle /\ StoreIdle

SpecHeaders == HeaderInit /\ [][ParseNext]_vars

(***************************************************************************)
(* SpecExperience: parse_resume_text on the lines of an EXPERIENCE section *)
(***************************************************************************)
MaxExperienceLines == 3

ExperienceCatalog ==
    {"Engineer at Acme", "Analyst | Initech", "~ Built things", "- Led a team",
     "* Built data apps", "* Led it", "2019 - 2021",
     "Ran a very large group of engineers at Acme"}

ExperienceTexts ==
    {join("\n", <<"EXPERIENCE">> \o ls) : ls \in SeqsUpTo(ExperienceCatalog, MaxExperienceLines)}

ExperienceInit ==
    /\ pr_pc = "call"
    /\ pr_text \in ExperienceTexts
    /\ pr_lines = <<>>
    /\ current_section = "other"
    /\ resume_data = <<>>
    /\ CorrIdle /\ ToolIdle /\ ScoreIdle /\ OptIdle /\ FmtIdle /\ ReqIdle /\ StoreIdle

SpecExperience == ExperienceInit /\ [][ParseNext]_vars

(***************************************************************************)
(* Specification of the optimizer: one call of optimize_resume_content,    *)
(* taken one section at a time.  LanguageTool (lt_state, lt_matches)       *)
(* answers the same for every text of the call.                            *)
(***************************************************************************)
MaxSkills == 3
MaxResps == 4
MaxEntries == 2
MaxAchievements == 3

OptSkillCatalog == {"Python", "python", "css.", "css .", "CSS", "sql"}
OptRespCatalog == {"Built things", "managed a team of 5", "Led projects 2020"}
OptEntries ==
    {[title |-> "Engineer", company |-> "Acme", duration |-> "2019 - 2021",
      responsibilities |-> <<"develop APIs", "Built things">>],
     [title |-> "Analyst", company |-> "", duration |-> "",
      responsibilities |-> <<>>]}
OptAchievementCatalog == {"Won award", "Top python dev 2020"}
OptAnalyses ==
    [missing_keywords : {<<>>, <<"docker">>,
                         <<"leadership", "machine learning", "python", "data", "sql">>},
     job_skills : {<<>>, <<"python", "sql", "aws">>},
     suggestions : {<<>>, <<"Add these important keywords: docker">>},
     skills_match : {[matched_skills |-> <<>>]}]
NoAnalysis ==
    [missing_keywords |-> <<>>, job_skills |-> <<>>, suggestions |-> <<>>,
     skills_match |-> [matched_skills |-> <<>>]]
OptToolAnswers ==
    {<<"ready", <<>>>>, <<"ready", <<OneMatch>>>>,
     <<"ready", <<[OneMatch EXCEPT !.offset = 2, !.errorLength = 3, !.replacements = <<"">>],
                  OneMatch>>>>,
     <<"unavailable", <<>>>>, <<"failing", <<>>>>}

resume_with(summary, experience, skills, achievements) ==
    [empty_resume_data EXCEPT !.summary = summary, !.experience = experience,
                              !.skills = skills, !.achievements = achievements]

\* the skills vary
FamOptSkills ==
    /\ \E skills \in SeqsUpTo(OptSkillCatalog, MaxSkills) :
           \* parse_skills keeps no skill twice
           /\ \A i, j \in 1..Len(skills) : i # j => skills[i] # skills[j]
           /\ opt_resume_data = resume_with("", <<>>, skills, <<>>)
    /\ opt_analysis \in {an \in OptAnalyses : an.suggestions = <<>>}

\* one experience entry, its responsibilities vary
FamOptResponsibilities ==
    /\ \E resps \in SeqsUpTo(OptRespCatalog, MaxResps) :
           opt_resume_data =
               resume_with("Seasoned dev with experience in ops",
                           <<[title |-> "Engineer", company |-> "Acme", duration |-> "",
                              responsibilities |-> resps]>>,
                           <<"Python", "python">>, <<>>)
    /\ opt_analysis \in {an \in OptAnalyses : an.job_skills = <<>>}

\* the experience entries and the achievements vary
FamOptEntries ==
    /\ \E experience \in SeqsUpTo(OptEntries, MaxEntries),
          achievements \in SeqsUpTo(OptAchievementCatalog, MaxAchievements) :
           opt_resume_data = resume_with("Dev.", experience, <<"sql">>, achievements)
    /\ opt_analysis \in {an \in OptAnalyses : an.job_skills = <<>>}

OptInit ==
    /\ opt_pc = "call"
    /\ opt_job_description = SomeJob
    /\ optimized = <<>>
    /\ heap = <<>>
    /\ \E answer \in OptToolAnswers : lt_state = answer[1] /\ lt_matches = answer[2]
    /\ FamOptSkills \/ FamOptResponsibilities \/ FamOptEntries
    /\ CorrIdle /\ ScoreIdle /\ ParseIdle /\ FmtIdle /\ ReqIdle /\ StoreIdle

optInputs == <<opt_resume_data, opt_job_description, opt_analysis>>

\* line 180
OptCopy ==
    /\ opt_pc = "call"
    /\ optimized' = opt_resume_data
    /\ opt_pc' = "summary"
    /\ UNCHANGED <<optInputs, heap, corrVars, toolVars, scoreVars, parseVars,
                   fmtVars,
                   reqVars,
                   storeVars>>

\* lines 189-191
OptSummary ==
    /\ opt_pc = "summary"
    /\ optimized' = [optimized EXCEPT !.summary =
           optimize_summary_comprehensive(@, opt_analysis.missing_keywords,
               opt_analysis.suggestions, opt_job_description)]
    /\ opt_pc' = "skills"
    /\ UNCHANGED <<optInputs, heap, corrVars, toolVars, scoreVars, parseVars,
                   fmtVars,
                   reqVars,
                   storeVars>>

\* lines 194-196
OptSkills ==
    /\ opt_pc = "skills"
    /\ optimized' = [optimized EXCEPT !.skills =
           optimize_skills_comprehensive(@, opt_analysis.job_skills,
               opt_analysis.missing_keywords, opt_analysis.skills_match.matched_skills)]
    /\ opt_pc' = "experience"
    /\ UNCHANGED <<optInputs, heap, corrVars, toolVars, scoreVars, parseVars,
                   fmtVars,
                   reqVars,
                   storeVars>>

\* lines 199-201
OptExperience ==
    /\ opt_pc = "experience"
    /\ optimized' = [optimized EXCEPT !.experience =
           optimize_experience_comprehensive(@, opt_analysis.missing_keywords,
               opt_analysis.suggestions, opt_job_description)]
    /\ opt_pc' = "achievements"
    /\ UNCHANGED <<optInputs, heap, corrVars, toolVars, scoreVars, parseVars,
                   fmtVars,
                   reqVars,
                   storeVars>>

\* lines 204-206
OptAchievements ==
    /\ opt_pc = "achievements"
    /\ optimized' = [optimized EXCEPT !.achievements =
           enhance_achievements(@, opt_analysis.missing_keywords,
                                opt_analysis.suggestions)]
    /\ opt_pc' = "grammar"
    /\ UNCHANGED <<optInputs, heap, corrVars, toolVars, scoreVars, parseVars,
                   fmtVars,
                   reqVars,
                   storeVars>>

\* lines 209-211
OptGrammar ==
    /\ opt_pc = "grammar"
    /\ optimized' = apply_grammar_corrections(optimized, lt_state, lt_matches)
    /\ opt_pc' = "done"
    /\ UNCHANGED <<optInputs, heap, corrVars, toolVars, scoreVars, parseVars,
                   fmtVars,
                   reqVars,
                   storeVars>>

OptNext ==
    OptCopy \/ OptSummary \/ OptSkills \/ OptExperience \/ OptAchievements \/ OptGrammar

SpecOptimize == OptInit /\ [][OptNext]_vars

(***************************************************************************)
(* SpecOptExperience: one call of optimize_experience_comprehensive, its   *)
(* loop over the entries taken one entry at a time                         *)
(***************************************************************************)
MaxLoopResps == 5

LoopRespCatalog == {"Built things", "managed a team of 5", "uses sql daily"}
LoopMissing ==
    {<<>>, <<"docker">>, <<"sql", "machine learning", "docker", "aws">>,
     <<"docker", "aws", "sql", "python">>}

\* one entry, its responsibilities vary
FamLoopResponsibilities ==
    \E resps \in SeqsUpTo(LoopRespCatalog, MaxLoopResps) :
        opt_resume_data =
            resume_with("", <<[title |-> "Engineer", company |-> "Acme", duration |-> "",
                              responsibilities |-> resps]>>, <<>>, <<>>)

\* several entries
FamLoopEntries ==
    \E experience \in SeqsUpTo(OptEntries, MaxEntries) :
        opt_resume_data = resume_with("", experience, <<>>, <<>>)

OptExpInit ==
    /\ opt_pc = "loop"
    /\ opt_job_description = SomeJob
    /\ opt_analysis \in {[NoAnalysis EXCEPT !.missing_keywords = mk] : mk \in LoopMissing}
    /\ FamLoopResponsibilities \/ FamLoopEntries
    /\ optimized = [experience |-> <<>>]
    /\ heap = <<>>
    /\ CorrIdle /\ ToolIdle /\ ScoreIdle /\ ParseIdle /\ FmtIdle /\ ReqIdle /\ StoreIdle

\* lines 374-423: one turn of the loop over the entries
OptExpTurn ==
    /\ opt_pc = "loop"
    /\ Len(optimized.experience) < Len(opt_resume_data.experience)
    /\ optimized' = [optimized EXCEPT !.experience =
           Append(@, optimize_experience_item(
                         opt_resume_data.experience[Len(@) + 1],
                         opt_analysis.missing_keywords, opt_job_description))]
    /\ UNCHANGED <<opt_pc, optInputs, heap, corrVars, toolVars, scoreVars, parseVars, fmtVars,
                   reqVars, storeVars>>

\* line 425
OptExpReturn ==
    /\ opt_pc = "loop"
    /\ Len(optimized.experience) = Len(opt_resume_data.experience)
    /\ opt_pc' = "returned"
    /\ UNCHANGED <<optimized, optInputs, heap, corrVars, toolVars, scoreVars, parseVars, fmtVars,
                   reqVars, storeVars>>

OptExpNext == OptExpTurn \/ OptExpReturn

SpecOptExperience == OptExpInit /\ [][OptExpNext]_vars

(***************************************************************************)
(* SpecAchievements: enhance_achievements applied to achievements, then    *)
(* again to what it returned, as when optimized content is optimized again *)
(***************************************************************************)
MaxPasses == 2

AchievementCatalog == {"Won an award", "Shipped sql tools", "Employee of the month"}
AchievementMissing == {<<>>, <<"docker">>, <<"sql", "docker", "aws", "python">>}
AchievementSuggestions == {<<>>, <<"Add these important keywords: docker">>}

AchInit ==
    /\ opt_pc = "achievements"
    /\ opt_job_description = SomeJob
    /\ opt_analysis \in {[NoAnalysis EXCEPT !.missing_keywords = mk, !.suggestions = sg] :
                             mk \in AchievementMissing, sg \in AchievementSuggestions}
    /\ \E achievements \in SeqsUpTo(AchievementCatalog, MaxAchievements) :
           opt_resume_data = resume_with("", <<>>, <<>>, achievements)
    /\ optimized = [achievements |-> opt_resume_data.achievements, earlier |-> <<>>]
    /\ heap = <<>>
    /\ CorrIdle /\ ToolIdle /\ ScoreIdle /\ ParseIdle /\ FmtIdle /\ ReqIdle /\ StoreIdle

\* lines 647-666, called on the achievements of the content at hand
AchEnhance ==
    /\ opt_pc = "achievements"
    /\ Len(optimized.earlier) < MaxPasses
    /\ optimized' =
           [achievements |-> enhance_achievements(optimized.achievements,
                                                  opt_analysis.missing_keywords,
                                                  opt_analysis.suggestions),
            earlier |-> Append(optimized.earlier, optimized.achievements)]
    /\ UNCHANGED <<opt_pc, optInputs, heap, corrVars, toolVars, scoreVars, parseVars, fmtVars,
                   reqVars, storeVars>>

AchNext == AchEnhance

SpecAchievements == AchInit /\ [][AchNext]_vars
(***************************************************************************)
(* SpecOptObjects: one call of optimize_resume_content on the caller's     *)
(* objects, statement by statement                                         *)
(***************************************************************************)
\* where stored_resume puts the caller's dict
resume_data_at == 2 * Len(opt_resume_data.experience) + 4

ObjToolAnswers ==
    {<<"ready", <<>>>>, <<"ready", <<OneMatch>>>>, <<"failing", <<>>>>}

ObjInit ==
    /\ opt_pc = "call"
    /\ opt_job_description = SomeJob
    /\ \E answer \in ObjToolAnswers : lt_state = answer[1] /\ lt_matches = answer[2]
    /\ FamOptResponsibilities \/ FamOptEntries
    /\ heap = stored_resume(opt_resume_data)
    /\ optimized = 0
    /\ CorrIdle /\ ScoreIdle /\ ParseIdle /\ FmtIdle /\ ReqIdle /\ StoreIdle

ObjRest ==
    UNCHANGED <<optInputs, corrVars, toolVars, scoreVars, parseVars, fmtVars, reqVars,
                storeVars>>

\* line 180
ObjCopy ==
    /\ opt_pc = "call"
    /\ LET new == copied(heap, resume_data_at) IN
       heap' = new.heap /\ optimized' = new.at
    /\ opt_pc' = "summary"
    /\ ObjRest

\* lines 189-191
ObjSummary ==
    /\ opt_pc = "summary"
    /\ heap' = [heap EXCEPT ![optimized].summary =
           optimize_summary_comprehensive(@, opt_analysis.missing_keywords,
               opt_analysis.suggestions, opt_job_description)]
    /\ opt_pc' = "skills"
    /\ UNCHANGED optimized
    /\ ObjRest

\* lines 194-196: optimize_skills_comprehensive returns a list of its own
ObjSkills ==
    /\ opt_pc = "skills"
    /\ LET list == allocated(heap,
                       optimize_skills_comprehensive(heap[heap[optimized].skills],
                           opt_analysis.job_skills, opt_analysis.missing_keywords,
                           opt_analysis.skills_match.matched_skills))
       IN heap' = [list.heap EXCEPT ![optimized].skills = list.at]
    /\ opt_pc' = "experience"
    /\ UNCHANGED optimized
    /\ ObjRest

\* lines 199-201
ObjExperience ==
    /\ opt_pc = "experience"
    /\ LET list == optimized_entries(heap, heap[heap[optimized].experience], <<>>,
                       opt_analysis.missing_keywords, opt_job_description)
       IN heap' = [list.heap EXCEPT ![optimized].experience = list.at]
    /\ opt_pc' = "achievements"
    /\ UNCHANGED optimized
    /\ ObjRest

\* lines 204-206: enhance_achievements works on achievements.copy()
ObjAchievements ==
    /\ opt_pc = "achievements"
    /\ LET list == allocated(heap,
                       enhance_achievements(heap[heap[optimized].achievements],
                           opt_analysis.missing_keywords, opt_analysis.suggestions))
       IN heap' = [list.heap EXCEPT ![optimized].achievements = list.at]
    /\ opt_pc' = "grammar"
    /\ UNCHANGED optimized
    /\ ObjRest

\* lines 209 and 216: apply_grammar_corrections copies the optimized dict;
\* from here on `optimized` is the address of corrected_data, which line 209
\* binds to the name on return
ObjGrammarCopy ==
    /\ opt_pc = "grammar"
    /\ LET corrected_data == copied(heap, optimized) IN
       heap' = corrected_data.heap /\ optimized' = corrected_data.at
    /\ opt_pc' = "correct summary"
    /\ ObjRest

\* lines 219-220
ObjGrammarSummary ==
    /\ opt_pc = "correct summary"
    /\ heap' = [heap EXCEPT ![optimized].summary =
           IF @ # "" THEN correct_text_grammar(@, lt_state, lt_matches) ELSE @]
    /\ opt_pc' = "correct experience"
    /\ UNCHANGED optimized
    /\ ObjRest

\* lines 223-230
ObjGrammarExperience ==
    /\ opt_pc = "correct experience"
    /\ heap' = IF heap[heap[optimized].experience] # <<>>
               THEN corrected_entries(heap, heap[heap[optimized].experience],
                                      lt_state, lt_matches)
               ELSE heap
    /\ opt_pc' = "correct achievements"
    /\ UNCHANGED optimized
    /\ ObjRest

\* lines 233-234
ObjGrammarAchievements ==
    /\ opt_pc = "correct achievements"
    /\ heap' = IF heap[heap[optimized].achievements] # <<>>
               THEN LET fix(text) == correct_text_grammar(text, lt_state, lt_matches)
                        list == allocated(heap, Map(heap[heap[optimized].achievements], fix))
                    IN [list.heap EXCEPT ![optimized].achievements = list.at]
               ELSE heap
    /\ opt_pc' = "correct skills"
    /\ UNCHANGED optimized
    /\ ObjRest

\* lines 237-241 and 211
ObjGrammarSkills ==
    /\ opt_pc = "correct skills"
    /\ heap' = IF heap[heap[optimized].skills] # <<>>
               THEN LET list == allocated(heap, Map(heap[heap[optimized].skills],
                                                    correct_skill_text))
                    IN [list.heap EXCEPT ![optimized].skills = list.at]
               ELSE heap
    /\ opt_pc' = "done"
    /\ UNCHANGED optimized
    /\ ObjRest

ObjNext ==
    \/ ObjCopy \/ ObjSummary \/ ObjSkills \/ ObjExperience \/ ObjAchievements
    \/ ObjGrammarCopy \/ ObjGrammarSummary \/ ObjGrammarExperience
    \/ ObjGrammarAchievements \/ ObjGrammarSkills

SpecOptObjects == ObjInit /\ [][ObjNext]_vars
(***************************************************************************)
(* Specification of the format generation: generate_format_specific_content*)
(* applied to one optimized resume and one analysis, once per format type, *)
(* in any order (generate_resume_formats takes the order of format_types). *)
(***************************************************************************)
MaxFmtSkills == 3

FmtSkillCatalog == {"Python", "Excel SQL", "API management", "Git", "AWS", "Cooking"}
FmtJobSkills == {<<>>, <<"python", "aws">>}
FmtMissing == {<<>>, <<"docker">>, <<"leadership", "machine learning", "python", "data">>}

\* the skills and the job skills vary
FamFmtSkills ==
    /\ \E skills \in SeqsUpTo(FmtSkillCatalog, MaxFmtSkills) :
           optimized_data = resume_with("Dev.", <<>>, skills, <<"Won award">>)
    /\ \E job_skills \in FmtJobSkills :
           fmt_analysis = [missing_keywords |-> <<"docker">>, job_skills |-> job_skills]

\* the summary and the missing keywords vary
FamFmtSummary ==
    /\ \E summary \in {"", "Dev."}, experience \in SeqsUpTo(OptEntries, 1) :
           optimized_data = resume_with(summary, experience, <<"Git", "Python">>, <<>>)
    /\ \E missing_keywords \in FmtMissing :
           fmt_analysis = [missing_keywords |-> missing_keywords, job_skills |-> <<"python">>]

FmtInit ==
    /\ FamFmtSkills \/ FamFmtSummary
    /\ fmt_given = [resume_data |-> optimized_data, analysis |-> fmt_analysis]
    /\ fmt_done = <<>>
    /\ formats = <<>>
    /\ CorrIdle /\ ToolIdle /\ ScoreIdle /\ ParseIdle /\ OptIdle /\ ReqIdle /\ StoreIdle

\* line 24: formats[format_type] = generate_format_specific_content(...)
GenerateFormat(format_type) ==
    /\ format_type \notin Range(fmt_done)
    /\ formats' = dict_set(formats, format_type,
           generate_format_specific_content(optimized_data, format_type, fmt_analysis))
    /\ LET left == arguments_after(optimized_data, format_type, fmt_analysis) IN
           /\ optimized_data' = left.resume_data
           /\ fmt_analysis' = left.analysis
    /\ fmt_done' = Append(fmt_done, format_type)
    /\ UNCHANGED <<fmt_given, corrVars, toolVars, scoreVars, parseVars, optVars,
                   reqVars,
                   storeVars>>

FmtNext == \E format_type \in Range(format_types) : GenerateFormat(format_type)

SpecFormat == FmtInit /\ [][FmtNext]_vars

(***************************************************************************)
(* Specification of one request: the handler of /upload (POST or GET),     *)
(* /download or /download_all runs from entry to return.  The calls that   *)
(* may raise, and LanguageTool, answer as chosen in Init.                  *)
(***************************************************************************)
UploadText == "Jane Doe\nSKILLS\nPython, css ."
GeneratedText == "Alex Smith\nSUMMARY\nEngineer with experience"
UploadNlp ==
    [resume_keywords |-> {"python"}, job_keywords |-> {"python", "sql", "docker"},
     resume_skills |-> {"python"}, job_skills |-> {"python", "sql"}]
UploadTfidf == [ok |-> TRUE, value |-> RInt(40)]

\* an entry saved by an earlier request, and the clock of this one
EarlierId == "1001"
RequestClock == "1002"
EarlierEntry ==
    LET an == analyze_resume_vs_job(UploadText, SomeJob, UploadNlp, UploadTfidf)
        gr == check_grammar(UploadText, "ready", <<>>)
    IN resume_entry(
           upload_resume_data("resume.txt", UploadText, SomeJob, an,
               calculate_resume_score(an, gr, FALSE), gr,
               generate_resume_formats(UploadText, SomeJob, an, "ready", <<>>)),
           EarlierId)

UploadRequests ==
    [route : {"upload"}, method : {"POST"},
     job_description : {"", "  ", " python sql "},
     file : {"", "resume.txt", "my resume.PDF", "resume.exe", "resume"}]
        \cup {[route |-> "upload", method |-> "GET", job_description |-> "", file |-> ""]}

UploadFaults ==
    [extract : {"text", "blank", "raises"}, generate : {"text", "raises"},
     analyze : {"returns", "raises"}, grammar : {"returns", "raises"},
     score : {"returns", "raises"}, formats : {"returns", "raises"},
     save : {"returns", "raises"}]

ToolAnswers ==
    {<<"ready", <<>>>>, <<"ready", <<OneMatch>>>>, <<"unavailable", <<>>>>, <<"failing", <<>>>>}

UploadInit ==
    /\ request \in UploadRequests
    /\ faults \in UploadFaults
    /\ \E answer \in ToolAnswers : lt_state = answer[1] /\ lt_matches = answer[2]
    /\ locals = [filename |-> "", filepath |-> "", resume_text |-> "", analysis |-> <<>>,
                 grammar_results |-> <<>>, score |-> <<>>, optimized_resumes |-> <<>>]
    /\ data_file \in {<<>>, <<EarlierEntry>>}

DownloadRequests ==
    [route : {"download"}, resume_id : {EarlierId, "9999"},
     format_type : Range(format_types) \cup {"bogus"}, file_format : {"pdf", "txt", "docx"}]
        \cup [route : {"download_all"}, resume_id : {EarlierId, "9999"}]

RenderFaults ==
    [txt : {"written", "raises"}, weasyprint : {"written", "raises"},
     fpdf : {"written", "missing", "raises"}]

NoLocals == [filename |-> "", zip_filename |-> "", zip_entries |-> <<>>, todo |-> <<>>,
             warnings |-> <<>>, resume_data |-> <<>>]

DownloadInit ==
    /\ request \in DownloadRequests
    /\ faults \in RenderFaults
    /\ ToolIdle
    /\ locals = NoLocals
    /\ data_file \in {<<>>, <<EarlierEntry>>}

ReqInit ==
    /\ rq_pc = "entry"
    /\ UploadInit \/ DownloadInit
    /\ calls = <<>>
    /\ flashed = <<>>
    /\ response = <<>>
    /\ uploads = {}
    /\ downloads = {}
    /\ CorrIdle /\ ScoreIdle /\ ParseIdle /\ OptIdle /\ FmtIdle /\ StoreIdle

redirect(endpoint) == [kind |-> "redirect", to |-> endpoint]

\* flash(message, 'error') and return redirect(request.url), the uploaded
\* file left where it is
UploadAbort_leaving_file(message) ==
    /\ flashed' = Append(flashed, message)
    /\ uploads' = uploads
    /\ response' = redirect("upload")
    /\ rq_pc' = "done"

\* flash(message, 'error') and return redirect(request.url), the uploaded
\* file removed when there is one
UploadAbort(message) ==
    /\ flashed' = Append(flashed, message)
    /\ uploads' = uploads \ {locals.filepath}
    /\ response' = redirect("upload")
    /\ rq_pc' = "done"

\* lines 29-30
UploadGet ==
    /\ rq_pc = "entry" /\ request.route = "upload" /\ request.method = "GET"
    /\ response' = [kind |-> "template", name |-> "upload.html"]
    /\ rq_pc' = "done"
    /\ UNCHANGED <<request, faults, locals, calls, flashed, data_file, uploads, downloads>>
    /\ UNCHANGED <<corrVars, toolVars, scoreVars, parseVars, optVars, fmtVars,
                   storeVars>>

\* lines 32-36
UploadValidate ==
    /\ rq_pc = "entry" /\ request.route = "upload" /\ request.method = "POST"
    /\ IF strip(request.job_description) = ""
       THEN /\ UploadAbort("Job description is required")
            /\ UNCHANGED locals
       ELSE /\ rq_pc' = "file"
            /\ UNCHANGED <<locals, flashed, response, uploads>>
    /\ UNCHANGED <<request, faults, calls, data_file, downloads>>
    /\ UNCHANGED <<corrVars, toolVars, scoreVars, parseVars, optVars, fmtVars,
                   storeVars>>

\* lines 39-48, 112-114 and 116: the branch on the uploaded file
UploadFile ==
    /\ rq_pc = "file"
    /\ LET has_file == request.file # "" IN
       IF has_file /\ allowed_file(request.file)
       THEN LET filename == secure_filename(request.file)
                filepath == "uploads/" \o filename
            IN /\ locals' = [locals EXCEPT !.filename = filename, !.filepath = filepath]
               /\ uploads' = uploads \cup {filepath}
               /\ rq_pc' = "extract"
               /\ UNCHANGED <<flashed, response>>
       ELSE IF has_file
       THEN /\ UploadAbort("Invalid file type. Please upload PDF, DOCX, or TXT files only.")
            /\ UNCHANGED locals
       ELSE /\ locals' = [locals EXCEPT !.filename = "generated_resume.txt"]
            /\ rq_pc' = "generate"
            /\ UNCHANGED <<flashed, response, uploads>>
    /\ UNCHANGED <<request, faults, calls, data_file, downloads>>
    /\ UNCHANGED <<corrVars, toolVars, scoreVars, parseVars, optVars, fmtVars,
                   storeVars>>

\* lines 50-57 (and the handler of line 107 when the extraction raises)
UploadExtract ==
    /\ rq_pc = "extract"
    /\ calls' = Append(calls, "extract")
    /\ CASE faults.extract = "raises" ->
              UploadAbort("Error processing file") /\ UNCHANGED locals
         [] faults.extract = "blank" ->
              UploadAbort("Could not extract text from the uploaded file. Please check the file format.")
              /\ UNCHANGED locals
         [] OTHER ->
              /\ locals' = [locals EXCEPT !.resume_text = UploadText]
              /\ rq_pc' = "analyze"
              /\ UNCHANGED <<flashed, response, uploads>>
    /\ UNCHANGED <<request, faults, data_file, downloads>>
    /\ UNCHANGED <<corrVars, toolVars, scoreVars, parseVars, optVars, fmtVars,
                   storeVars>>

\* lines 117-121 (and the handler of line 168)
UploadGenerate ==
    /\ rq_pc = "generate"
    /\ calls' = Append(calls, "generate")
    /\ IF faults.generate = "raises"
       THEN UploadAbort("Error generating resume") /\ UNCHANGED locals
       ELSE /\ locals' = [locals EXCEPT !.resume_text = GeneratedText]
            /\ rq_pc' = "analyze"
            /\ UNCHANGED <<flashed, response, uploads>>
    /\ UNCHANGED <<request, faults, data_file, downloads>>
    /\ UNCHANGED <<corrVars, toolVars, scoreVars, parseVars, optVars, fmtVars,
                   storeVars>>

\* lines 60-65 (123-127 for a generated resume)
UploadAnalyze ==
    /\ rq_pc = "analyze"
    /\ calls' = Append(calls, "analyze")
    /\ LET raised == faults.analyze = "raises" IN
       IF after_analyze(raised) = "return"
       THEN UploadAbort("Error analyzing resume") /\ UNCHANGED locals
       ELSE /\ locals' = [locals EXCEPT !.analysis =
                   IF raised THEN <<>>
                   ELSE analyze_resume_vs_job(locals.resume_text,
                            strip(request.job_description), UploadNlp, UploadTfidf)]
            /\ rq_pc' = after_analyze(raised)
            /\ UNCHANGED <<flashed, response, uploads>>
    /\ UNCHANGED <<request, faults, data_file, downloads>>
    /\ UNCHANGED <<corrVars, toolVars, scoreVars, parseVars, optVars, fmtVars,
                   storeVars>>

\* lines 67-77 (129-139)
UploadGrammar ==
    /\ rq_pc = "grammar"
    /\ calls' = Append(calls, "grammar")
    /\ locals' = [locals EXCEPT !.grammar_results =
           IF faults.grammar = "raises" THEN route_grammar_fallback
           ELSE check_grammar(locals.resume_text, lt_state, lt_matches)]
    /\ rq_pc' = "score"
    /\ UNCHANGED <<request, faults, flashed, response, data_file, uploads, downloads>>
    /\ UNCHANGED <<corrVars, toolVars, scoreVars, parseVars, optVars, fmtVars,
                   storeVars>>

\* line 80 (142), and the handler of line 107 (168) when the call raises
UploadScore ==
    /\ rq_pc = "score"
    /\ calls' = Append(calls, "score")
    /\ IF faults.score = "raises"
       THEN UploadAbort("Error processing file") /\ UNCHANGED locals
       ELSE /\ locals' = [locals EXCEPT !.score =
                   calculate_resume_score(locals.analysis, locals.grammar_results,
                                          round_half_up)]
            /\ rq_pc' = "formats"
            /\ UNCHANGED <<flashed, response, uploads>>
    /\ UNCHANGED <<request, faults, data_file, downloads>>
    /\ UNCHANGED <<corrVars, toolVars, scoreVars, parseVars, optVars, fmtVars,
                   storeVars>>

\* line 83 (146), and the handler of line 107 (168) when the call raises
UploadFormats ==
    /\ rq_pc = "formats"
    /\ calls' = Append(calls, "formats")
    /\ IF faults.formats = "raises"
       THEN UploadAbort("Error processing file") /\ UNCHANGED locals
       ELSE /\ locals' = [locals EXCEPT !.optimized_resumes =
                   generate_resume_formats(locals.resume_text,
                       strip(request.job_description), locals.analysis,
                       lt_state, lt_matches)]
            /\ rq_pc' = "save"
            /\ UNCHANGED <<flashed, response, uploads>>
    /\ UNCHANGED <<request, faults, data_file, downloads>>
    /\ UNCHANGED <<corrVars, toolVars, scoreVars, parseVars, optVars, fmtVars,
                   storeVars>>

\* lines 86-105 (149-166): save_resume, the upload removed, the redirect; and
\* the handler of line 107 (168) when save_resume raises before it wrote
UploadSave ==
    /\ rq_pc = "save"
    /\ calls' = Append(calls, "save")
    /\ IF faults.save = "raises"
       THEN UploadAbort("Error processing file") /\ UNCHANGED data_file
       ELSE /\ data_file' = Append(data_file,
                   resume_entry(upload_resume_data(locals.filename, locals.resume_text,
                                    strip(request.job_description), locals.analysis,
                                    locals.score, locals.grammar_results,
                                    locals.optimized_resumes),
                                RequestClock))
            /\ uploads' = uploads \ {locals.filepath}
            /\ response' = [kind |-> "redirect", to |-> "analyze",
                            resume_id |-> RequestClock]
            /\ rq_pc' = "done"
            /\ UNCHANGED flashed
    /\ UNCHANGED <<request, faults, locals, downloads>>
    /\ UNCHANGED <<corrVars, toolVars, scoreVars, parseVars, optVars, fmtVars,
                   storeVars>>

UploadNext ==
    \/ UploadGet \/ UploadValidate \/ UploadFile \/ UploadExtract \/ UploadGenerate
    \/ UploadAnalyze \/ UploadGrammar \/ UploadScore \/ UploadFormats \/ UploadSave

\* flash(message, 'error') and return redirect(...) of the download handlers
DownloadAbort(message, endpoint) ==
    /\ flashed' = Append(flashed, message)
    /\ response' = redirect(endpoint)
    /\ rq_pc' = "done"

\* lines 201-204 and 246-249: load_by_id, and the return when nothing is found
DownloadLoad ==
    /\ rq_pc = "entry" /\ request.route \in {"download", "download_all"}
    /\ LET found == load_by_id(data_file, request.resume_id) IN
       IF found = <<>>
       THEN DownloadAbort("Resume not found", "index") /\ UNCHANGED locals
       ELSE /\ locals' = [locals EXCEPT !.resume_data = found]
            /\ rq_pc' = IF request.route = "download" THEN "render" ELSE "zip"
            /\ UNCHANGED <<flashed, response>>
    /\ UNCHANGED <<request, faults, calls, data_file, uploads, downloads>>
    /\ UNCHANGED <<corrVars, toolVars, scoreVars, parseVars, optVars, fmtVars,
                   storeVars>>

\* lines 206-211, and the handler of lines 240-242 when the call raises
DownloadRender ==
    /\ rq_pc = "render"
    /\ calls' = Append(calls, <<"render", request.format_type, request.file_format>>)
    /\ LET file == generate_downloadable_resume(locals.resume_data, request.format_type,
                        request.file_format, "downloads", faults)
       IN IF file.raised
          THEN /\ DownloadAbort("Error generating download", "preview")
               /\ UNCHANGED <<locals, downloads>>
          ELSE /\ locals' = [locals EXCEPT !.filename = file.value]
               /\ downloads' = downloads \cup {file.value}
               /\ rq_pc' = "send"
               /\ UNCHANGED <<flashed, response>>
    /\ UNCHANGED <<request, faults, data_file, uploads>>
    /\ UNCHANGED <<corrVars, toolVars, scoreVars, parseVars, optVars, fmtVars,
                   storeVars>>

\* lines 213-238: send_file, the generated file removed when the response closes
DownloadSend ==
    /\ rq_pc = "send"
    /\ response' =
           [kind |-> "file", path |-> locals.filename,
            download_name |-> splitext_base(dict_get(locals.resume_data,
                                  "original_filename", "resume"))
                              \o "_" \o request.format_type \o "." \o request.file_format,
            mimetype |-> IF request.file_format = "pdf" THEN "application/pdf"
                         ELSE "text/plain"]
    /\ downloads' = downloads \ {locals.filename}
    /\ rq_pc' = "done"
    /\ UNCHANGED <<request, faults, locals, calls, flashed, data_file, uploads>>
    /\ UNCHANGED <<corrVars, toolVars, scoreVars, parseVars, optVars, fmtVars,
                   storeVars>>

\* lines 254-259: the archive is opened for writing
DownloadAllOpen ==
    /\ rq_pc = "zip"
    /\ LET base_name == splitext_base(dict_get(locals.resume_data,
                             "original_filename", "resume"))
           zip_filename == "downloads/" \o base_name \o "_all_formats_"
                               \o request.resume_id \o ".zip"
       IN /\ locals' = [locals EXCEPT !.zip_filename = zip_filename,
                                      !.filename = base_name,
                                      !.todo = download_all_pairs]
          /\ downloads' = downloads \cup {zip_filename}
    /\ rq_pc' = "pair"
    /\ UNCHANGED <<request, faults, calls, flashed, response, data_file, uploads>>
    /\ UNCHANGED <<corrVars, toolVars, scoreVars, parseVars, optVars, fmtVars,
                   storeVars>>

\* lines 260-271: one turn of the loops; a failure is logged and the loop goes on
DownloadAllPair ==
    /\ rq_pc = "pair" /\ locals.todo # <<>>
    /\ LET format_type == Head(locals.todo)[1]
           file_format == Head(locals.todo)[2]
           file == generate_downloadable_resume(locals.resume_data, format_type,
                       file_format, "downloads", faults)
       IN /\ calls' = Append(calls, <<"render", format_type, file_format>>)
          /\ locals' =
                 IF file.raised
                 THEN [locals EXCEPT !.todo = Tail(@),
                          !.warnings = Append(@, "Failed to generate " \o format_type
                                                     \o " " \o file_format)]
                 ELSE [locals EXCEPT !.todo = Tail(@),
                          !.zip_entries = Append(@, locals.filename \o "_" \o format_type
                                                        \o "." \o file_format)]
    /\ UNCHANGED <<rq_pc, request, faults, flashed, response, data_file, uploads, downloads>>
    /\ UNCHANGED <<corrVars, toolVars, scoreVars, parseVars, optVars, fmtVars,
                   storeVars>>

\* lines 273-298: the archive is closed, tested and sent, and removed when the
\* response closes; the handler of lines 296-298 when the test raises
DownloadAllSend ==
    /\ rq_pc = "pair" /\ locals.todo = <<>>
    /\ IF locals.zip_filename \notin downloads \/ zip_size(locals.zip_entries) = 0
       THEN /\ DownloadAbort("Error generating ZIP file", "analyze")
            /\ UNCHANGED downloads
       ELSE /\ response' = [kind |-> "file", path |-> locals.zip_filename,
                            download_name |-> locals.filename \o "_all_formats.zip",
                            mimetype |-> "application/zip",
                            entries |-> locals.zip_entries]
            /\ downloads' = downloads \ {locals.zip_filename}
            /\ rq_pc' = "done"
            /\ UNCHANGED flashed
    /\ UNCHANGED <<request, faults, locals, calls, data_file, uploads>>
    /\ UNCHANGED <<corrVars, toolVars, scoreVars, parseVars, optVars, fmtVars,
                   storeVars>>

DownloadNext ==
    DownloadLoad \/ DownloadRender \/ DownloadSend \/ DownloadAllOpen \/ DownloadAllPair
        \/ DownloadAllSend

ReqNext == UploadNext \/ DownloadNext

SpecRequest == ReqInit /\ [][ReqNext]_vars

(***************************************************************************)
(* SpecUploads: two POST /upload requests served at the same time, each    *)
(* with a resume file of its own.  A step is what one request does between *)
(* two accesses to the upload folder or the data file (lines 44-111).      *)
(***************************************************************************)
Uploaders == {"u1", "u2"}

OtherText == "John Roe\nSKILLS\nsql"

\* what each request uploads: the names differ, the secured names may not
UploadsOf ==
    [u1 : [route : {"upload"}, method : {"POST"}, job_description : {SomeJob},
           file : {"my resume.txt"}, content : {UploadText}],
     u2 : [route : {"upload"}, method : {"POST"}, job_description : {SomeJob},
           file : {"my_resume.txt", "cv.txt"}, content : {OtherText, "  "}]]

ProcessFaults == {"returns", "analyze raises", "later raises"}

UploadsInit ==
    /\ rq_pc = [u \in Uploaders |-> "file"]
    /\ request \in UploadsOf
    /\ faults \in [Uploaders -> ProcessFaults]
    /\ lt_state = "ready" /\ lt_matches = <<>>
    /\ locals = [u \in Uploaders |->
                    [filename |-> "", filepath |-> "", resume_text |-> "",
                     resume_data |-> <<>>, resume_id |-> ""]]
    /\ calls = <<>>
    /\ flashed = [u \in Uploaders |-> <<>>]
    /\ response = [u \in Uploaders |-> <<>>]
    /\ data_file = <<>>
    /\ uploads = {}
    /\ downloads = {}
    /\ CorrIdle /\ ScoreIdle /\ ParseIdle /\ OptIdle /\ FmtIdle /\ StoreIdle

\* the upload folder holds files, each a path and a content
file_exists(path) == \E f \in uploads : f.path = path
file_content(path) == (CHOOSE f \in uploads : f.path = path).content
file_saved(path, content) ==
    {f \in uploads : f.path # path} \cup {[path |-> path, content |-> content]}
file_removed(path) == {f \in uploads : f.path # path}

\* flash(message, 'error') and return redirect(request.url)
Flashing(u, message) ==
    /\ flashed' = [flashed EXCEPT ![u] = Append(@, message)]
    /\ response' = [response EXCEPT ![u] = redirect("upload")]
    /\ rq_pc' = [rq_pc EXCEPT ![u] = "done"]

\* an exception inside the try block: on to the handler of line 107
Raising(u) ==
    /\ rq_pc' = [rq_pc EXCEPT ![u] = "except"]
    /\ UNCHANGED <<flashed, response, uploads>>

\* os.remove(filepath) and then flash and return, or FileNotFoundError
RemovingThenFlashing(u, message) ==
    IF file_exists(locals[u].filepath)
    THEN /\ uploads' = file_removed(locals[u].filepath)
         /\ Flashing(u, message)
    ELSE Raising(u)

\* lines 45-47
UploadsFile(u) ==
    /\ rq_pc[u] = "file"
    /\ LET filename == secure_filename(request[u].file)
           filepath == "uploads/" \o filename
       IN /\ locals' = [locals EXCEPT ![u].filename = filename, ![u].filepath = filepath]
          /\ uploads' = file_saved(filepath, request[u].content)
    /\ rq_pc' = [rq_pc EXCEPT ![u] = "extract"]
    /\ UNCHANGED <<flashed, response, data_file>>
    /\ UNCHANGED <<request, faults, calls, downloads>>
    /\ UNCHANGED <<corrVars, toolVars, scoreVars, parseVars, optVars, fmtVars,
                   storeVars>>

\* lines 51-57: extract_text_from_file raises when the file is not there
UploadsExtract(u) ==
    /\ rq_pc[u] = "extract"
    /\ IF ~file_exists(locals[u].filepath)
       THEN Raising(u) /\ UNCHANGED locals
       ELSE LET extracted == file_content(locals[u].filepath) IN
            IF strip(extracted) = ""
            THEN /\ uploads' = file_removed(locals[u].filepath)
                 /\ Flashing(u, "Could not extract text from the uploaded file. Please check the file format.")
                 /\ UNCHANGED locals
            ELSE /\ locals' = [locals EXCEPT ![u].resume_text = extracted]
                 /\ rq_pc' = [rq_pc EXCEPT ![u] = "process"]
                 /\ UNCHANGED <<flashed, response, uploads>>
    /\ UNCHANGED data_file
    /\ UNCHANGED <<request, faults, calls, downloads>>
    /\ UNCHANGED <<corrVars, toolVars, scoreVars, parseVars, optVars, fmtVars,
                   storeVars>>

\* lines 60-98: the analysis, the grammar check, the score, the formats and
\* the dict for the history; none of them looks at the folder
UploadsProcess(u) ==
    /\ rq_pc[u] = "process"
    /\ CASE faults[u] = "analyze raises" ->
              RemovingThenFlashing(u, "Error analyzing resume") /\ UNCHANGED locals
         [] faults[u] = "later raises" ->
              Raising(u) /\ UNCHANGED locals
         [] OTHER ->
              LET text == locals[u].resume_text
                  jd == strip(request[u].job_description)
                  an == analyze_resume_vs_job(text, jd, UploadNlp, UploadTfidf)
                  gr == check_grammar(text, lt_state, lt_matches)
              IN /\ locals' = [locals EXCEPT ![u].resume_data =
                        upload_resume_data(locals[u].filename, text, jd, an,
                            calculate_resume_score(an, gr, round_half_up), gr,
                            generate_resume_formats(text, jd, an, lt_state, lt_matches))]
                 /\ rq_pc' = [rq_pc EXCEPT ![u] = "save"]
                 /\ UNCHANGED <<flashed, response, uploads>>
    /\ UNCHANGED data_file
    /\ UNCHANGED <<request, faults, calls, downloads>>
    /\ UNCHANGED <<corrVars, toolVars, scoreVars, parseVars, optVars, fmtVars,
                   storeVars>>

\* line 100: save_resume, the clock read later for a later save
UploadsSave(u) ==
    /\ rq_pc[u] = "save"
    /\ LET resume_id == IF data_file = <<>> THEN EarlierId ELSE RequestClock IN
       /\ data_file' = Append(data_file, resume_entry(locals[u].resume_data, resume_id))
       /\ locals' = [locals EXCEPT ![u].resume_id = resume_id]
    /\ rq_pc' = [rq_pc EXCEPT ![u] = "remove"]
    /\ UNCHANGED <<flashed, response, uploads>>
    /\ UNCHANGED <<request, faults, calls, downloads>>
    /\ UNCHANGED <<corrVars, toolVars, scoreVars, parseVars, optVars, fmtVars,
                   storeVars>>

\* lines 103-105: os.remove and the redirect, or FileNotFoundError
UploadsRemove(u) ==
    /\ rq_pc[u] = "remove"
    /\ IF file_exists(locals[u].filepath)
       THEN /\ uploads' = file_removed(locals[u].filepath)
            /\ response' = [response EXCEPT ![u] =
                   [kind |-> "redirect", to |-> "analyze",
                    resume_id |-> locals[u].resume_id]]
            /\ rq_pc' = [rq_pc EXCEPT ![u] = "done"]
            /\ UNCHANGED flashed
       ELSE Raising(u)
    /\ UNCHANGED <<locals, data_file>>
    /\ UNCHANGED <<request, faults, calls, downloads>>
    /\ UNCHANGED <<corrVars, toolVars, scoreVars, parseVars, optVars, fmtVars,
                   storeVars>>

\* lines 107-109: the message flashed, and os.path.exists looked up
UploadsExcept(u) ==
    /\ rq_pc[u] = "except"
    /\ flashed' = [flashed EXCEPT ![u] = Append(@, "Error processing file")]
    /\ IF file_exists(locals[u].filepath)
       THEN /\ rq_pc' = [rq_pc EXCEPT ![u] = "except remove"]
            /\ UNCHANGED response
       ELSE /\ response' = [response EXCEPT ![u] = redirect("upload")]
            /\ rq_pc' = [rq_pc EXCEPT ![u] = "done"]
    /\ UNCHANGED <<locals, data_file, uploads>>
    /\ UNCHANGED <<request, faults, calls, downloads>>
    /\ UNCHANGED <<corrVars, toolVars, scoreVars, parseVars, optVars, fmtVars,
                   storeVars>>

\* lines 110-111: os.remove inside the handler; nothing catches what it raises
UploadsExceptRemove(u) ==
    /\ rq_pc[u] = "except remove"
    /\ IF file_exists(locals[u].filepath)
       THEN /\ uploads' = file_removed(locals[u].filepath)
            /\ response' = [response EXCEPT ![u] = redirect("upload")]
       ELSE /\ response' = [response EXCEPT ![u] = [kind |-> "error", status |-> 500]]
            /\ UNCHANGED uploads
    /\ rq_pc' = [rq_pc EXCEPT ![u] = "done"]
    /\ UNCHANGED <<locals, data_file, flashed>>
    /\ UNCHANGED <<request, faults, calls, downloads>>
    /\ UNCHANGED <<corrVars, toolVars, scoreVars, parseVars, optVars, fmtVars,
                   storeVars>>

UploadsNext ==
    \E u \in Uploaders :
        \/ UploadsFile(u) \/ UploadsExtract(u) \/ UploadsProcess(u) \/ UploadsSave(u)
        \/ UploadsRemove(u) \/ UploadsExcept(u) \/ UploadsExceptRemove(u)

SpecUploads == UploadsInit /\ [][UploadsNext]_vars
(***************************************************************************)
(* SpecStore: two requests saving to the history store while the periodic  *)
(* cleanup runs, every call a sequence of steps on the one file            *)
(***************************************************************************)
MaxSaves == 1
MaxTicks == 2

Savers == {"request 1", "request 2"}
Cleaner == "cleanup"
Callers == Savers \cup {Cleaner}

\* the clock, in hours, when the requests arrive
StartClock == max_age_hours + 2

StoredData == [original_filename |-> "resume.txt"]
OldEntry == resume_entry(StoredData, StartClock - max_age_hours - 1)
FreshEntry == resume_entry(StoredData, StartClock - 1)

NoStoreLocals == [resumes |-> <<>>, resume_id |-> 0, done |-> 0]

\* a caller holds what it read and has not finished writing
InWindow(pc) == pc \in {"loaded", "opened"}

\* the kind of overlap a caller entering its window makes with the others
overlaps_of(caller, pcs) ==
    {IF caller = Cleaner \/ other = Cleaner THEN "save/cleanup" ELSE "save/save" :
         other \in {c \in Callers \ {caller} : InWindow(pcs[c])}}

StoreInit ==
    /\ st_pc = [c \in Callers |-> "idle"]
    /\ st_local = [c \in Callers |-> NoStoreLocals]
    /\ returned_ids = {}
    /\ clock = StartClock
    /\ data_file \in {<<>>, <<OldEntry>>, <<FreshEntry>>, <<OldEntry, FreshEntry>>}
    /\ file_len = Len(data_file)
    /\ file_ok = TRUE
    /\ overlapped = {}
    /\ stored = <<>>
    /\ rq_pc = "idle" /\ request = <<>> /\ faults = <<>> /\ locals = <<>>
    /\ calls = <<>> /\ flashed = <<>> /\ response = <<>>
    /\ uploads = {} /\ downloads = {}
    /\ CorrIdle /\ ToolIdle /\ ScoreIdle /\ ParseIdle /\ OptIdle /\ FmtIdle

StoreRest ==
    /\ UNCHANGED stored
    /\ UNCHANGED <<rq_pc, request, faults, locals, calls, flashed, response, uploads,
                   downloads>>
    /\ UNCHANGED <<corrVars, toolVars, scoreVars, parseVars, optVars, fmtVars>>

\* models.py line 29: resumes = self._load_all()
SaveRead(c) ==
    /\ st_pc[c] = "idle" /\ st_local[c].done < MaxSaves
    /\ st_local' = [st_local EXCEPT ![c].resumes = load_all(data_file, file_ok)]
    /\ st_pc' = [st_pc EXCEPT ![c] = "loaded"]
    /\ overlapped' = overlapped \cup overlaps_of(c, st_pc)
    /\ UNCHANGED <<returned_ids, clock, data_file, file_len, file_ok>>
    /\ StoreRest

\* lines 31-48: the id and the entry from the clock, the entry appended to
\* what was loaded, and the file opened for writing
SaveOpen(c) ==
    /\ st_pc[c] = "loaded"
    /\ st_local' = [st_local EXCEPT
           ![c].resume_id = clock,
           ![c].resumes = resumes_append(@, resume_entry(StoredData, clock))]
    /\ st_pc' = [st_pc EXCEPT ![c] = "opened"]
    /\ file_len' = 0
    /\ file_ok' = FALSE
    /\ UNCHANGED <<returned_ids, clock, data_file, overlapped>>
    /\ StoreRest

\* lines 49-51: json.dump, the file closed and the id returned_ids
SaveClose(c) ==
    /\ st_pc[c] = "opened"
    /\ data_file' = st_local[c].resumes
    /\ file_len' = flushed_len(file_len, st_local[c].resumes)
    /\ file_ok' = flushed_ok(file_len, st_local[c].resumes)
    /\ returned_ids' = returned_ids \cup {st_local[c].resume_id}
    /\ st_local' = [st_local EXCEPT ![c].done = @ + 1]
    /\ st_pc' = [st_pc EXCEPT ![c] = "idle"]
    /\ UNCHANGED <<clock, overlapped>>
    /\ StoreRest

\* cleanup.py lines 49-74: the file read and filtered; the call returns 0
\* when the file cannot be read, is empty or loses no entry
CleanRead ==
    /\ st_pc[Cleaner] = "idle" /\ st_local[Cleaner].done < MaxSaves
    /\ LET resumes == load_all(data_file, file_ok)
           filtered == filtered_resumes(resumes, clock)
       IN IF ~file_ok \/ resumes = <<>> \/ Len(filtered) = Len(resumes)
          THEN /\ st_local' = [st_local EXCEPT ![Cleaner].done = @ + 1]
               /\ UNCHANGED <<st_pc, overlapped>>
          ELSE /\ st_local' = [st_local EXCEPT ![Cleaner].resumes = filtered]
               /\ st_pc' = [st_pc EXCEPT ![Cleaner] = "loaded"]
               /\ overlapped' = overlapped \cup overlaps_of(Cleaner, st_pc)
    /\ UNCHANGED <<returned_ids, clock, data_file, file_len, file_ok>>
    /\ StoreRest

\* lines 77-79: the file opened for writing
CleanOpen ==
    /\ st_pc[Cleaner] = "loaded"
    /\ st_pc' = [st_pc EXCEPT ![Cleaner] = "opened"]
    /\ file_len' = 0
    /\ file_ok' = FALSE
    /\ UNCHANGED <<st_local, returned_ids, clock, data_file, overlapped>>
    /\ StoreRest

\* lines 79-83: json.dump of the filtered entries and the file closed
CleanClose ==
    /\ st_pc[Cleaner] = "opened"
    /\ data_file' = st_local[Cleaner].resumes
    /\ file_len' = flushed_len(file_len, st_local[Cleaner].resumes)
    /\ file_ok' = flushed_ok(file_len, st_local[Cleaner].resumes)
    /\ st_local' = [st_local EXCEPT ![Cleaner].done = @ + 1]
    /\ st_pc' = [st_pc EXCEPT ![Cleaner] = "idle"]
    /\ UNCHANGED <<returned_ids, clock, overlapped>>
    /\ StoreRest

\* time passes
Tick ==
    /\ clock < StartClock + MaxTicks
    /\ clock' = clock + 1
    /\ UNCHANGED <<st_pc, st_local, returned_ids, data_file, file_len, file_ok, overlapped>>
    /\ StoreRest

StoreNext ==
    \/ \E c \in Savers : SaveRead(c) \/ SaveOpen(c) \/ SaveClose(c)
    \/ CleanRead \/ CleanOpen \/ CleanClose
    \/ Tick

SpecStore == StoreInit /\ [][StoreNext]_vars

(***************************************************************************)
(* SpecHistory: save_resume, load_by_id and cleanup_old_entries called one *)
(* after the other on the history store; an id is the reading of the clock *)
(***************************************************************************)
MaxStored == 2

HistoryData == [original_filename : {"a.txt", "b.txt"}]

NoLoad == [resume_id |-> 0, found |-> <<>>]

HistoryInit ==
    /\ st_pc = "ready"
    /\ st_local = NoLoad
    /\ returned_ids = {}
    /\ clock = StartClock
    /\ data_file = <<>>
    /\ file_len = 0
    /\ file_ok = TRUE
    /\ overlapped = {}
    /\ stored = <<>>
    /\ rq_pc = "idle" /\ request = <<>> /\ faults = <<>> /\ locals = <<>>
    /\ calls = <<>> /\ flashed = <<>> /\ response = <<>>
    /\ uploads = {} /\ downloads = {}
    /\ CorrIdle /\ ToolIdle /\ ScoreIdle /\ ParseIdle /\ OptIdle /\ FmtIdle

HistoryRest ==
    /\ UNCHANGED <<st_pc, overlapped, file_ok>>
    /\ UNCHANGED <<rq_pc, request, faults, locals, calls, flashed, response, uploads,
                   downloads>>
    /\ UNCHANGED <<corrVars, toolVars, scoreVars, parseVars, optVars, fmtVars>>

\* models.py lines 27-51, the whole call
HistorySave(data) ==
    /\ Len(stored) < MaxStored
    /\ data_file' = resumes_append(load_all(data_file, file_ok), resume_entry(data, clock))
    /\ file_len' = Len(data_file')
    /\ returned_ids' = returned_ids \cup {clock}
    /\ stored' = Append(stored, [resume_id |-> clock, resume_data |-> data, now |-> clock])
    /\ UNCHANGED <<st_local, clock>>
    /\ HistoryRest

\* models.py lines 54-60, called with an id that save_resume returned
HistoryLoad(resume_id) ==
    /\ st_local' = [resume_id |-> resume_id,
                    found |-> load_by_id(load_all(data_file, file_ok), resume_id)]
    /\ UNCHANGED <<returned_ids, clock, data_file, file_len, stored>>
    /\ HistoryRest

\* models.py lines 62-89: the file is rewritten when an entry is too old
HistoryCleanup ==
    /\ LET resumes == load_all(data_file, file_ok)
           filtered == filtered_resumes(resumes, clock)
       IN /\ Len(filtered) # Len(resumes)
          /\ data_file' = filtered
          /\ file_len' = Len(filtered)
    /\ UNCHANGED <<st_local, returned_ids, clock, stored>>
    /\ HistoryRest

\* time passes between two calls: a moment, or a day
HistoryTick(d) ==
    /\ clock + d <= StartClock + max_age_hours + MaxTicks
    /\ clock' = clock + d
    /\ UNCHANGED <<st_local, returned_ids, data_file, file_len, stored>>
    /\ HistoryRest

HistoryNext ==
    \/ \E data \in HistoryData : HistorySave(data)
    \/ \E resume_id \in returned_ids : HistoryLoad(resume_id)
    \/ HistoryCleanup
    \/ \E d \in {1, max_age_hours} : HistoryTick(d)

SpecHistory == HistoryInit /\ [][HistoryNext]_vars

(***************************************************************************)
(* Claims about correct_text_grammar                                       *)
(***************************************************************************)
\* the issues check_grammar reported for the text under correction
GcIssues == check_grammar(gc_text, lt_state, lt_matches).issues

\* the call got past the early return and reached the loop over the issues
GcLoopRan == gc_pc = "done" /\ gc_text # "" /\ Len(strip(gc_text)) >= 3

NonOverlapping(issues) ==
    \A i, j \in DOMAIN issues :
        i < j => \/ issues[i].offset + issues[i].length <= issues[j].offset
                 \/ issues[j].offset + issues[j].length <= issues[i].offset

SpansInText(issues, text) ==
    \A i \in DOMAIN issues : issues[i].offset + issues[i].length <= Len(text)

\* The text in which the characters [offset, offset+length) OF THE ORIGINAL are
\* replaced by the first replacement of each issue that has one: a scan of the
\* original from 0-based position p, which does not depend on any order of edits.
RECURSIVE SpliceOriginal(_, _, _)
SpliceOriginal(text, issues, p) ==
    IF p >= Len(text) THEN ""
    ELSE IF \E i \in DOMAIN issues :
                issues[i].offset = p /\ issues[i].replacements # <<>>
    THEN LET i == CHOOSE i \in DOMAIN issues :
                      issues[i].offset = p /\ issues[i].replacements # <<>>
         IN issues[i].replacements[1]
                \o SpliceOriginal(text, issues, p + issues[i].length)
    ELSE Char(text, p + 1) \o SpliceOriginal(text, issues, p + 1)

\* C2 (as claimed): for non-overlapping issues lying inside the text, every first
\* replacement replaces exactly the characters [offset, offset+length) of the
\* original text, whatever the lengths of the replacements.
C2_ReplacesOriginalSpans ==
    (GcLoopRan /\ NonOverlapping(GcIssues) /\ SpansInText(GcIssues, gc_text))
        => corrected_text = SpliceOriginal(gc_text, GcIssues, 0)

MinOffset(issues) ==
    CHOOSE m \in {issues[i].offset : i \in DOMAIN issues} :
        \A i \in DOMAIN issues : m <= issues[i].offset

\* the length of the part of the text before the smallest issue offset
UntouchedPrefix ==
    IF GcIssues = <<>> THEN Len(gc_text) ELSE Min(MinOffset(GcIssues), Len(gc_text))

\* C3: whatever the issues (overlapping or not), the result of
\* correct_text_grammar starts with the part of the input that lies before the
\* smallest issue offset, unchanged and of the same length.
C3_PrefixUnchanged ==
    gc_pc = "done" =>
        /\ Len(corrected_text) >= UntouchedPrefix
        /\ SubSeq(corrected_text, 1, UntouchedPrefix) = SubSeq(gc_text, 1, UntouchedPrefix)

\* C3's case: two overlapping issues, both applied after a non-empty prefix,
\* the first of them changing the length of the text.
C3_Witness ==
    /\ GcLoopRan
    /\ Len(GcIssues) = 2
    /\ ~NonOverlapping(GcIssues)
    /\ \A i \in DOMAIN GcIssues : GcIssues[i].replacements # <<>>
    /\ UntouchedPrefix >= 1
    /\ Len(GcIssues[1].replacements[1]) # GcIssues[1].length
    /\ GcIssues[2].offset + GcIssues[2].length
           <= Len(apply_issue(gc_text, GcIssues[1]))
    /\ corrected_text # gc_text

(***************************************************************************)
(* Claims about the analysis and the score (SpecScore)                     *)
(***************************************************************************)
Analysed == an_pc \in {"grammar", "score", "done"}
Scored == an_pc = "done"
IsBlank(text) == strip(text) = ""

\* the weights the claim names, in hundredths, and the five dimension scores
\* in the same order
ClaimedWeights == <<35, 25, 20, 15, 5>>
DimensionScores ==
    <<RInt(calculate_keyword_score(analysis)), RInt(calculate_skills_score(analysis)),
      analysis.semantic_similarity, grammar_results.score,
      calculate_completeness_score(analysis)>>
RECURSIVE WeightedSumTo(_)
WeightedSumTo(k) ==
    IF k = 0 THEN RInt(0)
    ELSE RAdd(WeightedSumTo(k - 1), RMul(DimensionScores[k], Rat(ClaimedWeights[k], 100)))
WeightedSum == WeightedSumTo(5)
ReportWeights ==
    <<score.weights.keyword_match, score.weights.skills_match,
      score.weights.semantic_similarity, score.weights.grammar,
      score.weights.completeness>>
InputsInRange ==
    /\ RLe(RInt(0), analysis.semantic_similarity) /\ RLe(analysis.semantic_similarity, RInt(100))
    /\ RLe(RInt(0), grammar_results.score) /\ RLe(grammar_results.score, RInt(100))

\* C4 as stated: the weights are 0.35, 0.25, 0.20, 0.15, 0.05 and sum to 1, and
\* the returned overall_score is in [0,100] and equals the weighted sum of the
\* five dimension scores
C4_OverallIsWeightedSum ==
    Scored /\ InputsInRange =>
        /\ ReportWeights = ClaimedWeights
        /\ ReportWeights[1] + ReportWeights[2] + ReportWeights[3]
               + ReportWeights[4] + ReportWeights[5] = 100
        /\ score.overall_score >= 0 /\ score.overall_score <= 1000
        /\ Rat(score.overall_score, 10) = WeightedSum

\* C4, amended: the weights are 0.35, 0.25, 0.20, 0.15, 0.05 and sum to 1, and
\* the returned overall_score is in [0,100] and is the weighted sum of the five
\* dimension scores rounded to one decimal (at most 0.05 away from it)
C4_OverallIsRoundedWeightedSum ==
    Scored /\ InputsInRange =>
        /\ ReportWeights = ClaimedWeights
        /\ ReportWeights[1] + ReportWeights[2] + ReportWeights[3]
               + ReportWeights[4] + ReportWeights[5] = 100
        /\ score.overall_score >= 0 /\ score.overall_score <= 1000
        /\ RLe(RSub(Rat(score.overall_score, 10), WeightedSum), Rat(1, 20))
        /\ RLe(RSub(WeightedSum, Rat(score.overall_score, 10)), Rat(1, 20))

\* a report whose weighted sum has more than one decimal
C4_Witness ==
    /\ Scored /\ InputsInRange
    /\ Rat(score.overall_score, 10) # WeightedSum
    /\ RLt(RInt(0), WeightedSum)

\* the category the threshold table gives to a score held in tenths
CategoryOfReported(tenths) ==
    IF tenths >= 850 THEN "Excellent"
    ELSE IF tenths >= 700 THEN "Good"
    ELSE IF tenths >= 550 THEN "Fair"
    ELSE IF tenths >= 400 THEN "Needs Improvement"
    ELSE "Poor Match"

\* C5: in every report the category is the one the threshold table assigns to
\* the report's overall_score (85.0 is "Excellent", 84.9 is "Good")
C5_CategoryOfReportedScore ==
    Scored => score.category = CategoryOfReported(score.overall_score)

\* C6: for an analysis with an empty job skill set the report's
\* breakdown.skills_match is the default 50
C6_NoJobSkillsGives50 ==
    Scored /\ analysis.job_skills = <<>> => score.breakdown.skills_match = 500

\* C7: calculate_keyword_overlap(RK, JK) is in [0,100] and is 0 when JK is
\* empty, and the analysis has keyword_overlap = 0 and semantic_similarity = 0
\* whenever the resume text or the job text is empty or only whitespace
C7_OverlapRangeAndEmptyInputs ==
    Analysed =>
        /\ LET direct == calculate_keyword_overlap(nlp.resume_keywords, nlp.job_keywords) IN
               /\ RLe(RInt(0), direct) /\ RLe(direct, RInt(100))
               /\ nlp.job_keywords = {} => direct = RInt(0)
        /\ RLe(RInt(0), analysis.keyword_overlap)
        /\ RLe(analysis.keyword_overlap, RInt(100))
        /\ analysis.job_keywords = <<>> => analysis.keyword_overlap = RInt(0)
        /\ IsBlank(resume_text) \/ IsBlank(job_description) =>
               /\ analysis.keyword_overlap = RInt(0)
               /\ analysis.semantic_similarity = RInt(0)

\* a blank resume text for which spaCy and the vectoriser would have had
\* something to say, analysed against a job that has keywords
C7_Witness ==
    /\ Analysed
    /\ resume_text # "" /\ IsBlank(resume_text) /\ ~IsBlank(job_description)
    /\ nlp.resume_keywords \cap nlp.job_keywords # {}
    /\ tfidf.ok /\ tfidf.value # RInt(0)

\* the order of the claim: longer first, then alphabetically
LongerThenAlphabetical(x, y) ==
    \/ Len(x) > Len(y)
    \/ Len(x) = Len(y) /\ StrLess(x, y)

\* C8: find_missing_keywords(RK, JK) is the first 20 (all when fewer) of
\* JK minus RK by descending length, then alphabetically: no duplicates,
\* disjoint from RK, within JK, at most 20, and no omitted keyword precedes a
\* returned one
C8_MissingKeywordsFirst20 ==
    Analysed =>
        LET RK == Range(analysis.resume_keywords)
            JK == Range(analysis.job_keywords)
            m == analysis.missing_keywords
        IN /\ \A i, j \in 1..Len(m) : i # j => m[i] # m[j]
           /\ Range(m) \cap RK = {}
           /\ Range(m) \subseteq JK
           /\ Len(m) <= 20
           /\ Len(m) = Min(20, Cardinality(JK \ RK))
           /\ \A i, j \in 1..Len(m) : i < j => LongerThenAlphabetical(m[i], m[j])
           /\ \A w \in (JK \ RK) \ Range(m) :
                  \A i \in 1..Len(m) : ~LongerThenAlphabetical(w, m[i])

\* more than 20 keywords are missing and the resume has one of the job's
C8_Witness ==
    /\ Analysed
    /\ Cardinality(Range(analysis.job_keywords) \ Range(analysis.resume_keywords)) > 20
    /\ Range(analysis.job_keywords) \cap Range(analysis.resume_keywords) # {}
    /\ Len(analysis.missing_keywords) = 20


\* the dimensions in the order of DimensionScores, and the area each is
\* reported under
DimensionNames ==
    <<"keyword_match", "skills_match", "semantic_similarity", "grammar", "completeness">>
AreaNames ==
    <<"Keyword Optimization", "Skills Alignment", "Content Relevance", "Writing Quality",
      "Resume Completeness">>

Potential == score.improvement_potential
Returned(d) == \E i \in 1..Len(Potential) : Potential[i].area = AreaNames[d]
BelowSeventy(d) == RLt(DimensionScores[d], RInt(70))
ClaimedGain(d) == RMin(RInt(25), RSub(RInt(90), DimensionScores[d]))

\* a before b in the order: higher priority rank, then larger potential gain
RanksAbove(a, b) ==
    \/ priority_order(a.priority) > priority_order(b.priority)
    \/ /\ priority_order(a.priority) = priority_order(b.priority)
       /\ RLt(b.potential_gain, a.potential_gain)

\* C25: calculate_improvement_potential returns at most 3 entries, each for
\* a dimension scoring below 70 and with potential_gain = min(25, 90 - score);
\* the entries are in descending order of priority rank and then of
\* potential_gain, and no dimension below 70 that is left out ranks above a
\* returned one
C25_TopThreeImprovements ==
    Scored =>
        /\ Len(Potential) <= 3
        /\ \A i \in 1..Len(Potential) :
               \E d \in 1..5 :
                   /\ Potential[i].area = AreaNames[d]
                   /\ BelowSeventy(d)
                   /\ Potential[i].current_score = DimensionScores[d]
                   /\ Potential[i].potential_gain = ClaimedGain(d)
        /\ \A i, j \in 1..Len(Potential) :
               i < j => Potential[i].area # Potential[j].area
                        /\ ~RanksAbove(Potential[j], Potential[i])
        /\ \A d \in 1..5 :
               (BelowSeventy(d) /\ ~Returned(d)) =>
                   /\ Len(Potential) = 3
                   /\ \A i \in 1..3 :
                          ~RanksAbove(improvement_entry(DimensionNames[d], DimensionScores[d]),
                                      Potential[i])

\* four dimensions score below 70, three are returned, and the returned ones
\* are not the three lowest
C25_Witness ==
    /\ Scored
    /\ Cardinality({d \in 1..5 : BelowSeventy(d)}) >= 4
    /\ Len(Potential) = 3
    /\ \E d \in 1..5 :
           /\ BelowSeventy(d) /\ ~Returned(d)
           /\ \E i \in 1..3 : RLt(DimensionScores[d], Potential[i].current_score)

PositiveSuggestion == "Your resume is well-matched to the job description!"

\* none of the conditions of generate_improvement_suggestions fires
NothingToSuggest ==
    /\ analysis.missing_keywords = <<>>
    /\ analysis.skills_match.missing_skills = <<>>
    /\ RGe(analysis.semantic_similarity, RInt(50))

\* C26: generate_improvement_suggestions never returns an empty list; the
\* positive-result suggestion is returned exactly when there are no missing
\* keywords, no missing skills and semantic_similarity >= 50, and then it is
\* the only suggestion
C26_PositiveOnlyAlone ==
    Analysed =>
        /\ analysis.suggestions # <<>>
        /\ PositiveSuggestion \in Range(analysis.suggestions) <=> NothingToSuggest
        /\ PositiveSuggestion \in Range(analysis.suggestions) =>
               analysis.suggestions = <<PositiveSuggestion>>

\* both outcomes: here the positive suggestion alone
C26_Witness ==
    /\ Analysed
    /\ NothingToSuggest
    /\ analysis.job_keywords # <<>>
    /\ analysis.suggestions = <<PositiveSuggestion>>

\* a resume whose similarity is high but which misses keywords
C26_HighSimilarityWithMissing ==
    /\ Analysed
    /\ RGe(analysis.semantic_similarity, RInt(50))
    /\ analysis.missing_keywords # <<>>
(***************************************************************************)
(* Claims about parse_resume_text (SpecParse)                              *)
(***************************************************************************)
ParseDone == pr_pc = "done"

\* the strings held by a parsed resume, field by field
StoredStrings(data) ==
    IF DOMAIN data = {} THEN {}
    ELSE UNION {
        {data.personal_info[k] : k \in DOMAIN data.personal_info},
        {data.summary},
        UNION {{data.experience[i].title, data.experience[i].company,
                data.experience[i].duration}
               \cup Range(data.experience[i].responsibilities) :
                   i \in DOMAIN data.experience},
        Range(data.skills),
        {data.education[i].details : i \in DOMAIN data.education},
        Range(data.achievements),
        Range(data.other_sections)}

\* the line, or a non-empty part of it, is held somewhere in the result
Stored(line, data) ==
    \E v \in StoredStrings(data) : v # "" /\ (contains(v, line) \/ contains(line, v))

\* the non-blank lines of the input that are content, not section headers
ContentLines(text) ==
    {l \in Range(resume_lines(text)) : detect_section(l) = ""}

\* C1: parse_resume_text loses no data: every non-blank line of the input is
\* stored in a field or list of the returned structure, whatever section the
\* parser is in when it reads the line
C1_EveryLineStored ==
    ParseDone => \A l \in ContentLines(pr_text) : Stored(l, resume_data)

\* C9 (parser part): for the empty text the returned structure has all seven
\* fields, each empty
C9_EmptyTextAllFieldsEmpty ==
    ParseDone /\ pr_text = "" =>
        /\ DOMAIN resume_data = {"personal_info", "summary", "experience", "skills",
                                 "education", "achievements", "other_sections"}
        /\ resume_data = empty_resume_data


\* the line the loop of parse_resume_text is about to read
AtLine == pr_pc = "loop" /\ pr_lines # <<>>
NextLine == Head(pr_lines)

FullyUpper(line) ==
    /\ \E i \in 1..Len(line) : Char(line, i) \in UpperLetters
    /\ \A i \in 1..Len(line) : Char(line, i) \notin LowerLetters
NoDigit(line) == \A i \in 1..Len(line) : Char(line, i) \notin Digits
Spaces(line) == Cardinality({i \in 1..Len(line) : Char(line, i) = " "})
Words(line) == Len(split(line, " "))

\* the section whose keyword list has a keyword that the line contains
HasKeywordOf(line, name) ==
    \E k \in 1..Len(section_keywords) :
        /\ section_keywords[k].section = name
        /\ \E i \in 1..Len(section_keywords[k].keywords) :
               contains(lower(line), section_keywords[k].keywords[i])

\* the loop reads a line and goes to another section
SectionChanges == AtLine /\ current_section' # current_section

\* the parser changes its section only on a header-like line that holds a
\* keyword of the new section
HeaderOnlyWithKeyword ==
    [][SectionChanges =>
           is_likely_header(NextLine) /\ HasKeywordOf(NextLine, current_section')]_vars

ReadsExperienceLine ==
    AtLine /\ current_section = "experience" /\ detect_section(NextLine) = ""

BulletPrefixed(line) ==
    startswith(line, Bullet) \/ startswith(line, "-") \/ startswith(line, "*")

\* C23: in the EXPERIENCE section a bullet-prefixed line never starts a new
\* entry: it is appended to the responsibilities of the last entry when there
\* is one, and the number of entries stays the same; new entries come only
\* from non-bullet lines of at most 6 words containing "at", "|" or "-", and
\* are appended in input order
C23_BulletsNeverStartEntries ==
    [][ReadsExperienceLine =>
         LET before == resume_data.experience
             after == resume_data'.experience
         IN /\ BulletPrefixed(NextLine) =>
                   /\ Len(after) = Len(before)
                   /\ before # <<>> =>
                          Len(after[Len(after)].responsibilities)
                              = Len(before[Len(before)].responsibilities) + 1
            /\ Len(after) # Len(before) =>
                   /\ ~BulletPrefixed(NextLine)
                   /\ Len(split_ws(NextLine)) <= 6
                   /\ \/ contains(lower(NextLine), "at")
                      \/ contains(NextLine, "|") \/ contains(NextLine, "-")
                   /\ Len(after) = Len(before) + 1
                   /\ SubSeq(after, 1, Len(before)) = before]_vars
(***************************************************************************)
(* Claims about optimize_resume_content (SpecOptimize)                     *)
(***************************************************************************)
OptDone == opt_pc = "done"

\* the result is what the function computes in one go
OptResultIsCall ==
    OptDone => optimized = optimize_resume_content(opt_resume_data, opt_job_description,
                               opt_analysis, lt_state, lt_matches)

\* no experience entry, responsibility or achievement is removed
KeepsExperienceAndAchievements ==
    /\ Len(optimized.experience) >= Len(opt_resume_data.experience)
    /\ \A i \in 1..Len(opt_resume_data.experience) :
           Len(optimized.experience[i].responsibilities)
               >= Len(opt_resume_data.experience[i].responsibilities)
    /\ Len(optimized.achievements) >= Len(opt_resume_data.achievements)

\* LanguageTool reports nothing in this call
NoGrammarEdits == lt_state # "ready" \/ lt_matches = <<>>

\* every input entry, responsibility and achievement is at its own position
\* in the result, rewritten at most by additions around its text
RewrittenInPlace ==
    /\ \A i \in 1..Len(opt_resume_data.experience) :
           LET old == opt_resume_data.experience[i]
               new == optimized.experience[i]
           IN /\ new.title = old.title /\ new.company = old.company
              /\ new.duration = old.duration
              /\ \A j \in 1..Len(old.responsibilities) :
                     contains(lower(new.responsibilities[j]),
                              lower(strip(old.responsibilities[j])))
    /\ \A j \in 1..Len(opt_resume_data.achievements) :
           optimized.achievements[j] = opt_resume_data.achievements[j]

\* what a skill is reduced to when duplicates are looked for
SkillKey(skill) == lower(correct_skill_text(skill))
\* the input skills that are not duplicates of an earlier one, in order
FirstOfKind(skills) ==
    SelectSeq([i \in 1..Len(skills) |->
                  IF \E j \in 1..(i - 1) : SkillKey(skills[j]) = SkillKey(skills[i])
                  THEN "" ELSE skills[i]],
              LAMBDA x : x # "")

\* C10 as stated: the result has at least as many skills, experience entries,
\* responsibilities per entry and achievements as the input
C10_NeverFewerElements ==
    OptDone =>
        /\ Len(optimized.skills) >= Len(opt_resume_data.skills)
        /\ KeepsExperienceAndAchievements

\* C10, amended: the result has at least as many experience entries,
\* responsibilities per entry and achievements as the input, each at its
\* input position; of the skills only those equal to an earlier skill when
\* corrected and lower-cased are removed, the others keep their order
C10_RemovesOnlyDuplicateSkills ==
    OptDone =>
        /\ KeepsExperienceAndAchievements
        /\ NoGrammarEdits => RewrittenInPlace
        /\ LET kept == FirstOfKind(opt_resume_data.skills) IN
               /\ Len(optimized.skills) >= Len(kept)
               /\ \A k \in 1..Len(kept) :
                      optimized.skills[k] = correct_skill_text(correct_skill_text(kept[k]))

\* a call without grammar edits in which two input skills were merged and the
\* responsibilities of an entry were rewritten
C10_Witness ==
    /\ OptDone
    /\ NoGrammarEdits
    /\ Len(optimized.skills) < Len(opt_resume_data.skills)
    /\ \E i \in 1..Len(opt_resume_data.experience) :
           /\ opt_resume_data.experience[i].responsibilities # <<>>
           /\ optimized.experience[i].responsibilities
                  # opt_resume_data.experience[i].responsibilities

\* the summary step has run and the grammar pass has not yet touched its result
SummaryOptimized == opt_pc \in {"skills", "experience", "achievements", "grammar"}

\* C11: after optimize_summary_comprehensive each of the first three missing
\* keywords occurs, ignoring case, in the returned summary, and the returned
\* summary ends with a period
C11_SummaryHasTopKeywords ==
    SummaryOptimized =>
        /\ \A k \in 1..Min(3, Len(opt_analysis.missing_keywords)) :
               contains(lower(optimized.summary), lower(opt_analysis.missing_keywords[k]))
        /\ endswith(optimized.summary, ".")

\* C12: the skills of the optimized resume hold no two entries that are equal
\* ignoring case, and no entry ends with one of . , ; :
C12_SkillsUniqueAndTrimmed ==
    OptDone =>
        /\ \A i, j \in 1..Len(optimized.skills) :
               i # j => lower(optimized.skills[i]) # lower(optimized.skills[j])
        /\ \A i \in 1..Len(optimized.skills) :
               \A c \in {".", ",", ";", ":"} : ~endswith(optimized.skills[i], c)

\* the entries optimize_experience_comprehensive was given and has produced
LoopIn == opt_resume_data.experience
LoopOut == optimized.experience
LoopMissingKeywords == opt_analysis.missing_keywords

\* the output responsibility holds the keyword and the input one did not
Injected(k, given, produced) ==
    contains(lower(produced), lower(k)) /\ ~contains(lower(given), lower(k))

\* the keywords taken for a responsibility of the entry (keywords_used at the
\* end of the entry's loop)
UsedIn(exp) ==
    keywords_used_before(exp.responsibilities, Len(exp.responsibilities),
                         LoopMissingKeywords)

\* one of the first three missing keywords was not used in the entry
TopKeywordUnused(exp) ==
    \E k \in 1..Min(3, Len(LoopMissingKeywords)) : LoopMissingKeywords[k] \notin UsedIn(exp)

C30_InputUnchanged ==
    opt_pc # "idle" => value_at(heap, resume_data_at) = opt_resume_data

\* the heap and the value model of the optimizer agree on what is returned
ObjectsAgreeWithValues ==
    opt_pc = "done" =>
        value_at(heap, optimized) =
            optimize_resume_content(opt_resume_data, opt_job_description, opt_analysis,
                                    lt_state, lt_matches)

\* the call has returned a resume whose entries differ from the caller's,
\* the grammar pass having corrected an entry
C30_Witness ==
    /\ opt_pc = "done"
    /\ lt_state = "ready" /\ lt_matches # <<>>
    /\ opt_resume_data.experience # <<>>
    /\ \A i \in 1..Len(opt_resume_data.experience) :
           /\ opt_resume_data.experience[i].responsibilities # <<>>
           /\ value_at(heap, optimized).experience[i].responsibilities
                  # opt_resume_data.experience[i].responsibilities
           /\ value_at(heap, optimized).experience[i].title
                  # opt_resume_data.experience[i].title
    /\ value_at(heap, resume_data_at) = opt_resume_data
(***************************************************************************)
(* Claims about the format generation (SpecFormat)                         *)
(***************************************************************************)
Generated(format_type) == format_type \in Range(fmt_done)

Grouped == formats["functional"].sections[1].content

\* the category of the first rule, in the stated order, that the skill matches
FirstMatchingCategory(skill) ==
    LET low == lower(skill)
        Matches(words) == \E w \in words : contains(low, w)
    IN IF Matches(programming_words) THEN "Programming Languages"
       ELSE IF Matches(tool_words) THEN "Tools & Technologies"
       ELSE IF Matches(soft_words) THEN "Soft Skills"
       ELSE IF Matches(technical_words) THEN "Technical Skills"
       ELSE "Other Skills"

\* C14: group_skills_by_category partitions the skills: every skill is in
\* exactly one category of the result, the one of the first matching rule
\* (Programming Languages, Tools & Technologies, Soft Skills, Technical
\* Skills, else Other Skills); a category lists its skills in input order;
\* no category of the result is empty
C14_SkillsPartitioned ==
    Generated("functional") =>
        LET skills == fmt_given.resume_data.skills IN
        /\ \A a, b \in 1..Len(Grouped) : a # b => Grouped[a][1] # Grouped[b][1]
        /\ \A a \in 1..Len(Grouped) :
               /\ Grouped[a][2] # <<>>
               /\ Grouped[a][2] =
                      SelectSeq(skills, LAMBDA s : FirstMatchingCategory(s) = Grouped[a][1])
        /\ \A i \in 1..Len(skills) :
               Cardinality({a \in 1..Len(Grouped) : skills[i] \in Range(Grouped[a][2])}) = 1

\* skills of three categories, one of them matching the rules of two
C14_Witness ==
    /\ Generated("functional")
    /\ Len(Grouped) = 3
    /\ \E i \in 1..Len(optimized_data.skills) :
           /\ any_in(soft_words, lower(optimized_data.skills[i]))
           /\ any_in(technical_words, lower(optimized_data.skills[i]))

\* the skills shown by the targeted variant
Prioritized == formats["targeted"].sections[1].content
Relevant(skill) ==
    \E i \in 1..Len(fmt_given.analysis.job_skills) :
        contains(lower(skill), lower(fmt_given.analysis.job_skills[i]))
Occurrences(seq, x) == Cardinality({i \in 1..Len(seq) : seq[i] = x})

\* C15: prioritize_relevant_skills returns a permutation of the skills in
\* which every skill containing a job skill (ignoring case) comes before
\* every skill containing none, each group in input order; with no job
\* skills the list is returned unchanged
C15_StablePartition ==
    Generated("targeted") =>
        LET skills == fmt_given.resume_data.skills IN
        /\ Len(Prioritized) = Len(skills)
        /\ \A i \in 1..Len(skills) :
               Occurrences(Prioritized, skills[i]) = Occurrences(skills, skills[i])
        /\ \A i, j \in 1..Len(Prioritized) :
               i < j => ~(~Relevant(Prioritized[i]) /\ Relevant(Prioritized[j]))
        /\ SelectSeq(Prioritized, Relevant) = SelectSeq(skills, Relevant)
        /\ SelectSeq(Prioritized, LAMBDA s : ~Relevant(s))
               = SelectSeq(skills, LAMBDA s : ~Relevant(s))
        /\ fmt_given.analysis.job_skills = <<>> => Prioritized = skills

\* a relevant skill that stood behind one that is not was moved to the front
C15_Witness ==
    /\ Generated("targeted")
    /\ Len(optimized_data.skills) = 3
    /\ ~Relevant(optimized_data.skills[1])
    /\ Relevant(optimized_data.skills[2]) /\ Relevant(optimized_data.skills[3])
    /\ optimized_data.skills[2] # optimized_data.skills[3]
    /\ Prioritized # optimized_data.skills
(***************************************************************************)
(* Claims about enhance_achievements applied to its own output             *)
(***************************************************************************)
Fillers ==
    <<"Recognized for outstanding performance and commitment to excellence",
      "Consistently exceeded performance targets and quality standards">>

\* enhance_achievements has been applied to its own output
AppliedTwice == Len(optimized.earlier) >= 2
\* what the application before the last one returned
FirstOutput == optimized.earlier[Len(optimized.earlier)]
\* what was given to the first application
GivenAchievements == optimized.earlier[1]

\* C27: enhance_achievements is not idempotent: applied to its own output,
\* when that output has fewer than 5 achievements and there are suggestions,
\* it appends the generic filler achievements again (and otherwise it
\* returns its input)
C27_FillersAppendedAgain ==
    AppliedTwice =>
        IF opt_analysis.suggestions # <<>> /\ Len(FirstOutput) < 5
        THEN optimized.achievements = FirstOutput \o Fillers
        ELSE optimized.achievements = FirstOutput

\* an input with fewer than 5 achievements whose second result holds each
\* filler twice
C27_Witness ==
    /\ Len(optimized.earlier) = 2
    /\ Len(GivenAchievements) < 5
    /\ optimized.achievements # FirstOutput
    /\ \A i \in 1..Len(Fillers) : Occurrences(optimized.achievements, Fillers[i]) = 2
(***************************************************************************)
(* Claims about the history store under concurrent callers (SpecStore)     *)
(***************************************************************************)
Quiescent == st_pc # <<>> /\ \A c \in Callers : st_pc[c] = "idle"

\* an id that save_resume returned_ids, of an entry young enough to be kept,
\* that load_by_id does not find
LostIds ==
    {id \in returned_ids :
        /\ id > clock - max_age_hours
        /\ load_by_id(load_all(data_file, file_ok), id) = <<>>}

\* C20: save_resume is an unprotected read-modify-write of the whole
\* collection: a record whose id was returned_ids is missing from the store
\* afterwards, and load_by_id of the id returns nothing, exactly in runs
\* where two calls on the file (two saves, or a save and a cleanup rewrite)
\* were in progress at once; without such an overlap no returned_ids record is
\* lost
C20_LostOnlyByOverlap == (Quiescent /\ LostIds # {}) => overlapped # {}

\* two saves interleaved: both returned_ids their ids, one record is gone
C20_Witness ==
    /\ Quiescent /\ file_ok
    /\ overlapped = {"save/save"}
    /\ Cardinality(returned_ids) = 2
    /\ Cardinality(LostIds) = 1

\* a save interleaved with a cleanup rewrite: the saved record is gone
C20_LostToCleanup ==
    /\ Quiescent /\ file_ok
    /\ overlapped = {"save/cleanup"}
    /\ LostIds # {}

(***************************************************************************)
(* Claims about the history store called sequentially (SpecHistory)        *)
(***************************************************************************)
\* the call is still too young for an age-based cleanup to remove its record
Unexpired(call) == call.now > clock - max_age_hours

\* the record that the call stored
RecordOf(call) == resume_entry(call.resume_data, call.now)

\* C21: in a sequential run of save_resume, load_by_id and cleanup,
\* load_by_id(id) returns exactly the record stored by the save_resume call
\* that returned id, unchanged, until an age-based cleanup removes it
C21_LoadReturnsWhatWasSaved ==
    \A k \in 1..Len(stored) :
        Unexpired(stored[k]) =>
            /\ load_by_id(load_all(data_file, file_ok), stored[k].resume_id)
                   = RecordOf(stored[k])
            /\ st_local.resume_id = stored[k].resume_id
                   => st_local.found = RecordOf(stored[k])

(***************************************************************************)
(* Claims about the request handlers (SpecRequest)                         *)
(***************************************************************************)
ReqDone == rq_pc = "done"
Called(step) == step \in Range(calls)
IsUpload == request.route = "upload"

\* the request added an entry to the history store
SavedRecord == Len(data_file) > 0 /\ data_file[Len(data_file)].id = RequestClock
UserSawError == flashed # <<>>

\* the grammar collaborator failed in one of its three ways during the request
GrammarFailed ==
    /\ IsUpload /\ Called("grammar")
    /\ faults.grammar = "raises" \/ lt_state \in {"unavailable", "failing"}

\* the fallback score in each of the three ways the collaborator fails, as
\* the report holds it
FallbackGrades ==
    {round1(check_grammar(UploadText, "unavailable", <<>>).score, FALSE),
     round1(check_grammar(UploadText, "failing", <<>>).score, FALSE),
     round1(route_grammar_fallback.score, FALSE)}

\* C16: when the grammar collaborator fails during an upload, the request
\* still completes and saves a record, and breakdown.grammar of the score is
\* the fallback value, the same in whichever way the collaborator failed
C16_OneGrammarFallback ==
    (ReqDone /\ GrammarFailed /\ faults.score = "returns" /\ faults.formats = "returns") =>
        /\ SavedRecord
        /\ response.to = "analyze"
        /\ \A grade \in FallbackGrades :
               data_file[Len(data_file)].score.breakdown.grammar = grade

\* a record is in the store: every step of the pipeline completed
PipelineCompleted ==
    /\ Called("analyze") /\ faults.analyze = "returns"
    /\ Called("score") /\ faults.score = "returns"
    /\ Called("formats") /\ faults.formats = "returns"

\* the store as the request found it
StoreUntouched == data_file \in {<<>>, <<EarlierEntry>>}

\* C17: when analyze_resume_vs_job or calculate_resume_score raises, the
\* upload is aborted with an error message and nothing is saved; the store
\* holds a record of the request only if analysis, scoring and format
\* generation all completed
C17_NoRecordWithoutAnalysis ==
    IsUpload =>
        /\ SavedRecord => PipelineCompleted
        /\ (Called("analyze") /\ faults.analyze = "raises") =>
               ReqDone /\ UserSawError /\ StoreUntouched /\ response.to = "upload"
        /\ (Called("score") /\ faults.score = "raises") =>
               ReqDone /\ UserSawError /\ StoreUntouched /\ response.to = "upload"

\* an upload whose scoring raised after the analysis and the grammar check
C17_Witness ==
    /\ IsUpload /\ ReqDone
    /\ Called("grammar") /\ Called("score") /\ faults.score = "raises"
    /\ UserSawError /\ ~SavedRecord

IsDownload == request.route = "download"
IsDownloadAll == request.route = "download_all"
SentFile == response # <<>> /\ response.kind = "file"

\* an upload posted without a job description
UploadWithoutJob ==
    IsUpload /\ request.method = "POST" /\ strip(request.job_description) = ""

\* a download request for a stored resume with a format type or a file
\* format outside the supported ones
InvalidDownload ==
    /\ IsDownload
    /\ load_by_id(data_file, request.resume_id) # <<>>
    /\ request.format_type \notin Range(format_types)
           \/ request.file_format \notin {"pdf", "txt"}

\* C18: invalid requests are rejected before any pipeline work: an upload
\* without a job description runs no extraction or analysis and saves
\* nothing; a download whose format_type is not one of the four types, or
\* whose file_format is not pdf or txt, produces an error message and
\* generates and sends no file
C18_InvalidRequestsRejected ==
    /\ UploadWithoutJob =>
           /\ calls = <<>> /\ uploads = {} /\ StoreUntouched
           /\ ReqDone => UserSawError
    /\ InvalidDownload =>
           /\ downloads = {} /\ ~SentFile
           /\ ReqDone => UserSawError

\* a pair of download_all whose generation failed: the loop is past it and
\* the archive has no entry for it
DroppedPair(format_type, file_format) ==
    /\ IsDownloadAll /\ rq_pc = "done"
    /\ <<"render", format_type, file_format>> \in Range(calls)
    /\ \A k \in 1..Len(locals.zip_entries) :
           ~endswith(locals.zip_entries[k], "_" \o format_type \o "." \o file_format)

\* C19: no render error is silently dropped in download_all: when the
\* generation of a pair fails, the user receives that file through a fallback
\* or sees an error message; when all eight generations fail the request ends
\* with the error message and sends no archive without entries
C19_NoRenderErrorDropped ==
    (IsDownloadAll /\ rq_pc = "done") =>
        /\ \A k \in 1..Len(download_all_pairs) :
               DroppedPair(download_all_pairs[k][1], download_all_pairs[k][2])
                   => UserSawError
        /\ SentFile => response.entries # <<>>

\* the request of u has returned, and nothing but the other request could
\* have disturbed it: it uploaded text and none of its calls was made to raise
UndisturbedUpload(u) ==
    /\ rq_pc[u] = "done"
    /\ strip(request[u].content) # ""
    /\ faults[u] = "returns"

\* the request of u was answered with the redirect to the record that holds
\* the text uploaded in it
StoredOwnText(u) ==
    /\ response[u] = [kind |-> "redirect", to |-> "analyze",
                      resume_id |-> locals[u].resume_id]
    /\ load_by_id(data_file, locals[u].resume_id) # <<>>
    /\ load_by_id(data_file, locals[u].resume_id).original_text = request[u].content

\* C28: each upload request analyses and stores the text of the file
\* uploaded in that same request, also when two requests run at the same
\* time with files of the same secured filename: no request extracts the
\* other's content, and none fails because the other removed the file
C28_UploadsDoNotInterfere ==
    \A u \in Uploaders :
        /\ locals[u].resume_text \in {"", request[u].content}
        /\ UndisturbedUpload(u) => StoredOwnText(u)

\* the same for requests whose secured filenames differ
DistinctPathsDoNotInterfere ==
    secure_filename(request["u1"].file) # secure_filename(request["u2"].file)
        => C28_UploadsDoNotInterfere

\* a request stored the text uploaded in the other request
StoredOthersText ==
    \E u \in Uploaders : \E v \in Uploaders \ {u} :
        /\ rq_pc[u] = "done"
        /\ load_by_id(data_file, locals[u].resume_id) # <<>>
        /\ load_by_id(data_file, locals[u].resume_id).original_text = request[v].content
        /\ request[v].content # request[u].content

\* a request failed although its record was saved
FailedAfterSaving ==
    \E u \in Uploaders :
        /\ UndisturbedUpload(u)
        /\ locals[u].resume_id # ""
        /\ response[u] = redirect("upload")

\* a request ended in an exception nothing caught
Uncaught == \E u \in Uploaders : rq_pc[u] = "done" /\ response[u].kind = "error"

\* the request saved the uploaded file to the upload folder (line 47)
SavedUpload == IsUpload /\ rq_pc \notin {"entry", "file"} /\ locals.filepath # ""

\* C29: every upload request that saved a file to the upload folder has
\* removed it by the time it returns, on every path: empty extracted text,
\* an analysis error, an exception during scoring, format generation or
\* saving to history, and success
C29_UploadRemovedOnReturn ==
    (SavedUpload /\ rq_pc = "done") => locals.filepath \notin uploads

\* the request returned after save_resume raised, the file saved before
C29_Witness ==
    /\ SavedUpload /\ rq_pc = "done"
    /\ calls[Len(calls)] = "save"
    /\ faults.save = "raises"
    /\ response = redirect("upload")
    /\ uploads = {}
=============================================================================
